---- MODULE Spec2Model ----
(***************************************************************************)
(* HEX-WEB-SCRAPER: one CLI run of the scraper in one of its three modes.  *)
(*   static : StaticScraper.scrape  (requests + tenacity retry)            *)
(*   async  : run_async_scraper -> AsyncScraper.scrape (aiohttp, gather)   *)
(*   js     : JSScraper.scrape      (selenium driver)                      *)
(* The remote web site and the operating system (signals) are the          *)
(* environment: a transport attempt may fail or answer with a document,    *)
(* a document carries the href of its "next" element, SIGINT/SIGTERM may   *)
(* arrive at any moment.                                                   *)
(***************************************************************************)
EXTENDS Integers, Sequences, FiniteSets, TLC

\* ---- bounds of the model ------------------------------------------------
NumPaths == 2
NumUrls == 3
MaxConcurrency == 2
MaxFetches == 4
TicksPerSecond == 2
MaxDelay == 3
MaxItems == 2

\* ---- program constants --------------------------------------------------
RetryAttempts == 3
DefaultDelaySeconds == 1
WaitMultiplier == 1
WaitMin == 4
WaitMax == 10

Paths == 1..NumPaths
Urls == 1..NumUrls
None == 0
Modes == {"static", "async", "js"}

\* urljoin(base_url, start_paths[i]): the i-th start path names page i.
StartUrl(i) == i

\* A parsed document: the page it was read from and the href of the first
\* element matched by pagination.next_selector (None when nothing matches).
Docs == [url : Urls, next : Urls \cup {None}]
NoDoc == [url |-> None, next |-> None]

\* What a next-page lookup that raised has seen: no href, not even None.
NoHref == NumUrls + 1

\* The site served: which of its pages has no element the item selector
\* matches.
VARIABLE site
Sites == {"A", "B"}

\* Number of elements the item selector matches on page u: none on page
\* 2, 5, ... of site A, none on page 3, 6, ... of site B.
ItemsOn(u) == IF site = "A" THEN (2 * u + 2) % 3 ELSE u % 3

\* extract_data: one record per matched item element, in document order.
extract_data(soup) == [k \in 1..ItemsOn(soup.url) |-> <<soup.url, k>>]

get_next_page_urlStuck(soup, cur) == IF soup.next # None THEN soup.next ELSE cur

get_next_page_urlSame(soup, cur) == IF soup.next # None THEN cur ELSE None

\* get_next_page_url: the href of the next element, or None.
get_next_page_url(soup, cur) == IF soup.next # None THEN soup.next ELSE None

VARIABLES
    mode,                \* config "mode"
    global_concurrency,  \* config concurrency.global
    shutdown_requested,  \* ResilienceManager.shutdown_requested
    pc,                  \* position of the main thread / main coroutine
    exc,                 \* exception in flight in the main thread
    pathIdx,             \* index of the start path of the for loop
    current_url,         \* scrape(): current_url (None = falsy)
    attempt,             \* tenacity attempt number of the running fetch_page
    soup,                \* scrape(): soup
    all_data,            \* scrape(): all_data
    session,             \* self.session: id of the session object, None
    sessionsOpened,      \* number of session objects constructed
    sessionsClosed,      \* ids of the session objects that were closed
    semaphore,           \* self.semaphore: its free slots
    tpc,                 \* per start url: position of its task
    tattempt,            \* per task: tenacity attempt number
    treq,                \* per task: transport attempts issued
    tsleep,              \* per task: rate-limit sleeps performed
    tfail,               \* per task: transport failures
    results,             \* per task: what scrape_single_page returned
    linkDropped,         \* a document with a next link was parsed by a task
    doneOrder,           \* the tasks in the order they ended
    driver,              \* JSScraper.driver: "none", "live" or "quit"
    quitCount,           \* number of driver.quit() calls
    screenshot_on_error, \* config selenium.screenshot_on_error
    shots,               \* per path: the take_screenshot calls of its walk
    shot_failed,         \* "Failed to take screenshot" has been logged
    fetched,             \* per path: the urls fetch_page was called with
    hrefs,               \* per path: the next hrefs get_next_page_url looked at
    lateFetch,           \* a fetch_page call began after a shutdown request
    reqCount,            \* transport attempts issued by the running call
    sleepCount,          \* rate-limit sleeps performed by the running call
    failCount,           \* transport failures of the running call
    outcome,             \* per path: "Done", or the error its walk logged
    rate_limit,          \* config "rate_limit": delay_seconds, jitter
    delay_seconds,       \* self.delay_seconds, in ticks
    jitter,              \* self.jitter
    delay,               \* fetch_page: delay of the latest sleep, in ticks
    waits,               \* tenacity: the waits inserted so far, in seconds
    selectors,           \* config "selectors": kind of item and of fields
    matched,             \* elements of the page the item selector matches
    items,               \* extract_data: items
    document,            \* the parsed page extract_data is given
    field_selectors,     \* config selectors.fields, in insertion order
    extracted,           \* what extract_data did with the document
    dry_run,             \* cli run: the --dry-run flag
    storage_type,        \* config storage.type
    transformations,     \* config "transformations" is not empty
    fault,               \* the step of the run that raises, if any
    yield,               \* number of records the scraper gives
    cpc,                 \* position in cli.run
    data,                \* cli.run: data
    calls,               \* the calls cli.run has made, in order
    notifications,       \* what the notifier was asked to send
    written,             \* storage path: directory made, rows written
    exit_status,         \* status the process ended with
    cexc,                \* the exception cli.run caught
    config_file,         \* the config file: whether it exists, its keys
    config,              \* what ConfigLoader made of it
    channels,            \* notification channels enabled and configured
    outbound,            \* deliveries tried: event, channel, whether ok
    pagination,          \* config "pagination"
    next_elements,       \* elements of the page next_selector matches
    page_url,            \* get_next_page_url: current_url
    next_url,            \* what get_next_page_url returned, if anything
    npc,                 \* position in one turn of the while loop
    item,                \* apply_transformations: the dict passed as data
    item_passed,         \* the dict as it was when it was passed
    field_transformers,  \* config "transformations": field to name
    transformed_data,    \* what apply_transformations returned
    ppc,                 \* position in the call of apply_transformations
    running,             \* Scheduler.running
    thread,              \* Scheduler.thread: "none", "alive" or "dead"
    job,                 \* schedule_task: interval, unit, whether scheduled
    task_ran,            \* run_pending has run the task
    mpc,                 \* position of the thread that uses the Scheduler
    spc                  \* position of the thread that runs run_scheduler

vars == <<site, mode, global_concurrency, doneOrder, shutdown_requested, pc, exc, pathIdx,
          current_url, attempt, soup, all_data, session, sessionsOpened,
          sessionsClosed, semaphore, tpc, tattempt, treq, tsleep, tfail,
          results, linkDropped, driver, quitCount, screenshot_on_error,
          shots, shot_failed, fetched, hrefs, lateFetch, reqCount,
          sleepCount, failCount, outcome, rate_limit, delay_seconds, jitter,
          delay, waits, selectors, matched, items, document,
          field_selectors, extracted, dry_run, storage_type,
          transformations, fault, yield, cpc, data, calls, notifications,
          written, exit_status, cexc, config_file, config, channels,
          outbound, pagination, next_elements, page_url, next_url, npc,
          item, item_passed, field_transformers, transformed_data, ppc,
          running, thread, job, task_ran, mpc, spc>>

cfgVars == <<site, mode, global_concurrency>>
nextVars == <<pagination, next_elements, page_url, next_url, npc>>
plugVars == <<item, item_passed, field_transformers, transformed_data, ppc>>
schedVars == <<running, thread, job, task_ran, mpc, spc>>
pageVars == <<rate_limit, delay_seconds, jitter, delay, waits, selectors,
              matched, items>>
sessVars == <<session, sessionsOpened, sessionsClosed>>
drvVars == <<driver, quitCount, screenshot_on_error, shots, shot_failed>>
docVars == <<document, field_selectors, extracted>>
cliVars == <<dry_run, storage_type, transformations, fault, yield, cpc, data,
             calls, notifications, written, exit_status, cexc, config_file,
             config, channels, outbound>>
taskVars == <<semaphore, tpc, tattempt, treq, tsleep, tfail, results,
              linkDropped,
              doneOrder>>
histVars == <<fetched, hrefs, lateFetch, reqCount, sleepCount, failCount,
              outcome>>

RECURSIVE SumLen(_, _)
SumLen(f, n) == IF n = 0 THEN 0 ELSE Len(f[n]) + SumLen(f, n - 1)

\* fetch_page calls made so far in this run (bounded by MaxFetches).
TotalFetches == SumLen(fetched, NumPaths)

\* The fields of one page's fetch and extraction before anything ran: no
\* rate_limit keys configured, well-formed selectors.
PageIdle ==
    /\ rate_limit = [delay_seconds |-> <<>>, jitter |-> <<>>]
    /\ delay_seconds = 0
    /\ jitter = FALSE
    /\ delay = 0
    /\ waits = <<>>
    /\ selectors = [item |-> "ok", fields |-> "ok"]
    /\ matched = 0
    /\ items = <<>>

\* Nothing of a scraper has run yet.
RunStart ==
    /\ shutdown_requested = FALSE
    /\ doneOrder = <<>>
    /\ pc = "init"
    /\ exc = "none"
    /\ pathIdx = 0
    /\ current_url = None
    /\ attempt = 0
    /\ soup = NoDoc
    /\ all_data = <<>>
    /\ session = None
    /\ sessionsOpened = 0
    /\ sessionsClosed = {}
    /\ semaphore = None
    /\ tpc = [i \in Paths |-> "new"]
    /\ tattempt = [i \in Paths |-> 0]
    /\ treq = [i \in Paths |-> 0]
    /\ tsleep = [i \in Paths |-> 0]
    /\ tfail = [i \in Paths |-> 0]
    /\ results = [i \in Paths |-> <<>>]
    /\ linkDropped = FALSE
    /\ driver = "none"
    /\ quitCount = 0
    /\ screenshot_on_error \in BOOLEAN
    /\ shots = [i \in Paths |-> <<>>]
    /\ shot_failed = FALSE
    /\ fetched = [i \in Paths |-> <<>>]
    /\ hrefs = [i \in Paths |-> <<>>]
    /\ lateFetch = FALSE
    /\ reqCount = 0
    /\ sleepCount = 0
    /\ failCount = 0
    /\ outcome = [i \in Paths |-> "none"]

RunInit ==
    /\ site = "A"
    /\ mode \in Modes
    /\ global_concurrency \in
           (IF mode = "async" THEN 1..MaxConcurrency ELSE {1})
    /\ RunStart

\* The process has not ended.
NotExited == -1

\* No document is being extracted from.
DocIdle ==
    /\ document = <<>>
    /\ field_selectors = <<>>
    /\ extracted = [status |-> "idle", items |-> <<>>]

\* No config file has been read; a file that does not exist.
NotLoaded == [status |-> "none", field |-> "", values |-> <<>>]
NoFile == [exists |-> FALSE, keys |-> {}]

\* The command line is not part of the run.
CliIdle ==
    /\ config_file = NoFile
    /\ config = NotLoaded
    /\ channels = {}
    /\ outbound = <<>>
    /\ dry_run = FALSE
    /\ storage_type = "csv"
    /\ transformations = FALSE
    /\ fault = "none"
    /\ yield = 0
    /\ cpc = "idle"
    /\ data = <<>>
    /\ calls = <<>>
    /\ notifications = <<>>
    /\ written = [dir |-> FALSE, rows |-> <<>>]
    /\ exit_status = NotExited
    /\ cexc = "none"

\* An absolute url: its host and the segments of its path.
Url(host, path) == [host |-> host, path |-> path]

\* No pagination step is being looked at.
NextIdle ==
    /\ pagination = <<>>
    /\ next_elements = <<>>
    /\ page_url = Url("", <<>>)
    /\ next_url = <<>>
    /\ npc = "idle"

\* No record is being transformed.
PlugIdle ==
    /\ item = <<>>
    /\ item_passed = <<>>
    /\ field_transformers = <<>>
    /\ transformed_data = <<>>
    /\ ppc = "idle"

\* No Scheduler has been made.
SchedIdle ==
    /\ running = FALSE
    /\ thread = "none"
    /\ job = [interval |-> 0, unit |-> "", scheduled |-> FALSE]
    /\ task_ran = FALSE
    /\ mpc = "idle"
    /\ spc = "idle"

\* The parts of the library that a run does not go through.
LibIdle == NextIdle /\ PlugIdle /\ SchedIdle

\* selenium.screenshot_on_error is left at its default, True.
Init ==
    /\ RunInit
    /\ screenshot_on_error = TRUE
    /\ PageIdle /\ DocIdle /\ CliIdle /\ LibIdle

\* ---- the environment ---------------------------------------------------

\* ResilienceManager._signal_handler: SIGINT / SIGTERM arrives.
Signal ==
    /\ pc \notin {"returned", "raised"}
    /\ ~shutdown_requested
    /\ shutdown_requested' = TRUE
    /\ UNCHANGED <<cfgVars, nextVars, plugVars, schedVars, docVars, cliVars,
                   pageVars, pc, exc, pathIdx, current_url, attempt, soup,
                   all_data, sessVars, taskVars, drvVars, histVars>>

\* ---- static mode: StaticScraper ----------------------------------------

\* cli.run: scraper = StaticScraper(config_loader); __init__ builds the
\* requests.Session.
StaticConstruct ==
    /\ mode = "static" /\ pc = "init"
    /\ sessionsOpened' = sessionsOpened + 1
    /\ session' = sessionsOpened + 1
    /\ pc' = "scrape"
    /\ UNCHANGED <<cfgVars, nextVars, plugVars, schedVars, docVars, cliVars,
                   pageVars, shutdown_requested, exc, pathIdx, current_url,
                   attempt, soup, all_data, sessionsClosed, taskVars, drvVars,
                   histVars>>

\* scrape(): all_data = [] and the configuration reads.
StaticScrapeBegin ==
    /\ mode = "static" /\ pc = "scrape"
    /\ all_data' = <<>>
    /\ pc' = "for"
    /\ UNCHANGED <<cfgVars, nextVars, plugVars, schedVars, docVars, cliVars,
                   pageVars, shutdown_requested, exc, pathIdx, current_url,
                   attempt, soup, sessVars, taskVars, drvVars, histVars>>

\* for path in start_paths: current_url = urljoin(base_url, path).
\* urljoin raises TypeError for a start path that is not a string; nothing
\* in scrape() catches it.
StaticForPath ==
    /\ mode = "static" /\ pc = "for"
    /\ IF pathIdx < NumPaths
       THEN \/ /\ pathIdx' = pathIdx + 1
               /\ current_url' = StartUrl(pathIdx + 1)
               /\ pc' = "while"
               /\ exc' = exc
            \/ /\ exc' = "TypeError"
               /\ pc' = "raised"
               /\ UNCHANGED <<pathIdx, current_url>>
       ELSE /\ pc' = "returned"
            /\ UNCHANGED <<pathIdx, current_url, exc>>
    /\ UNCHANGED <<cfgVars, nextVars, plugVars, schedVars, docVars, cliVars,
                   pageVars, shutdown_requested, attempt, soup, all_data,
                   sessVars, taskVars, drvVars, histVars>>

\* while current_url: ... soup = self.fetch_page(current_url) is entered
\* (first tenacity attempt), or the loop ends because current_url is None.
StaticWhile ==
    /\ mode = "static" /\ pc = "while"
    /\ IF current_url # None
       THEN /\ TotalFetches < MaxFetches
            /\ attempt' = 1
            /\ fetched' = [fetched EXCEPT ![pathIdx] = Append(@, current_url)]
            /\ lateFetch' = (lateFetch \/ shutdown_requested)
            /\ reqCount' = 0
            /\ sleepCount' = 0
            /\ failCount' = 0
            /\ pc' = "delay"
            /\ UNCHANGED outcome
       ELSE /\ outcome' = [outcome EXCEPT ![pathIdx] = "Done"]
            /\ pc' = "for"
            /\ UNCHANGED <<attempt, fetched, hrefs, lateFetch, reqCount,
                           sleepCount, failCount>>
    /\ UNCHANGED <<cfgVars, nextVars, plugVars, schedVars, docVars, cliVars,
                   pageVars, shutdown_requested, exc, pathIdx, current_url,
                   soup, all_data, sessVars, taskVars, drvVars, hrefs>>

\* fetch_page body up to the request: user agent, time.sleep(delay), then
\* session.get(url) is issued.
StaticSleep ==
    /\ mode = "static" /\ pc = "delay"
    /\ sleepCount' = sleepCount + 1
    /\ reqCount' = reqCount + 1
    /\ pc' = "request"
    /\ UNCHANGED <<cfgVars, nextVars, plugVars, schedVars, docVars, cliVars,
                   pageVars, shutdown_requested, exc, pathIdx, current_url,
                   attempt, soup, all_data, sessVars, taskVars, drvVars,
                   fetched, hrefs, lateFetch, failCount, outcome>>

StopOneAttemptEarly(a) == a >= RetryAttempts - 1

StopOneAttemptLate(a) == a >= RetryAttempts + 1

\* tenacity stop=stop_after_attempt(3): whether a failed attempt is the
\* last one; reraise is off, so the last failure surfaces as RetryError.
StopAfterAttempt(a) == a >= RetryAttempts

\* The request ends: a 2xx answer is parsed and returned, a
\* RequestException is logged and re-raised into the retry decorator.
StaticResponse ==
    /\ mode = "static" /\ pc = "request"
    /\ \/ \E d \in Docs :
              /\ d.url = current_url
              /\ soup' = d
              /\ pc' = "extract"
              /\ UNCHANGED <<exc, failCount>>
       \/ /\ failCount' = failCount + 1
          /\ IF StopAfterAttempt(attempt)
             THEN exc' = "RetryError" /\ pc' = "except"
             ELSE exc' = exc /\ pc' = "backoff"
          /\ soup' = soup
    /\ UNCHANGED <<cfgVars, nextVars, plugVars, schedVars, docVars, cliVars,
                   pageVars, shutdown_requested, pathIdx, current_url,
                   attempt, all_data, sessVars, taskVars, drvVars, fetched,
                   hrefs, lateFetch, reqCount, sleepCount, outcome>>

StaticBackoffNoSleep ==
    /\ mode = "static" /\ pc = "backoff"
    /\ attempt' = attempt + 1
    /\ reqCount' = reqCount + 1
    /\ pc' = "request"
    /\ UNCHANGED <<cfgVars, nextVars, plugVars, schedVars, docVars, cliVars,
                   pageVars, shutdown_requested, exc, pathIdx, current_url,
                   soup, all_data, sessVars, taskVars, drvVars, fetched,
                   hrefs, lateFetch, sleepCount, failCount, outcome>>

\* tenacity wait=wait_exponential(...): the wait between two attempts; the
\* next attempt runs the whole body of fetch_page again.
StaticBackoff ==
    /\ mode = "static" /\ pc = "backoff"
    /\ attempt' = attempt + 1
    /\ pc' = "delay"
    /\ UNCHANGED <<cfgVars, nextVars, plugVars, schedVars, docVars, cliVars,
                   pageVars, shutdown_requested, exc, pathIdx, current_url,
                   soup, all_data, sessVars, taskVars, drvVars, histVars>>

StaticExtractPrepend ==
    /\ mode = "static" /\ pc = "extract"
    /\ \/ /\ all_data' = extract_data(soup) \o all_data
          /\ pc' = "next"
          /\ exc' = exc
       \/ /\ exc' = "ExtractError"
          /\ pc' = "except"
          /\ all_data' = all_data
    /\ UNCHANGED <<cfgVars, nextVars, plugVars, schedVars, docVars, cliVars,
                   pageVars, shutdown_requested, pathIdx, current_url,
                   attempt, soup, sessVars, taskVars, drvVars, histVars>>

StaticExtractPartial ==
    /\ mode = "static" /\ pc = "extract"
    /\ all_data' = all_data \o extract_data(soup)
    /\ \/ pc' = "next" /\ exc' = exc
       \/ pc' = "except" /\ exc' = "ExtractError"
    /\ UNCHANGED <<cfgVars, nextVars, plugVars, schedVars, docVars, cliVars,
                   pageVars, shutdown_requested, pathIdx, current_url,
                   attempt, soup, sessVars, taskVars, drvVars, histVars>>

StaticExtractSkip ==
    /\ mode = "static" /\ pc = "extract"
    /\ pc' = "next"
    /\ UNCHANGED <<cfgVars, nextVars, plugVars, schedVars, docVars, cliVars,
                   pageVars, shutdown_requested, exc, pathIdx, current_url,
                   attempt, soup, all_data, sessVars, taskVars, drvVars,
                   histVars>>

\* data = self.extract_data(soup, selectors); all_data.extend(data).
\* soup.select raises on a malformed selector.
StaticExtract ==
    /\ mode = "static" /\ pc = "extract"
    /\ \/ /\ all_data' = all_data \o extract_data(soup)
          /\ pc' = "next"
          /\ exc' = exc
       \/ /\ exc' = "ExtractError"
          /\ pc' = "except"
          /\ all_data' = all_data
    /\ UNCHANGED <<cfgVars, nextVars, plugVars, schedVars, docVars, cliVars,
                   pageVars, shutdown_requested, pathIdx, current_url,
                   attempt, soup, sessVars, taskVars, drvVars, histVars>>

\* current_url = self.get_next_page_url(soup, current_url).
StaticNext ==
    /\ mode = "static" /\ pc = "next"
    /\ current_url' = get_next_page_url(soup, current_url)
    /\ hrefs' = [hrefs EXCEPT ![pathIdx] = Append(@, soup.next)]
    /\ pc' = "while"
    /\ UNCHANGED <<cfgVars, nextVars, plugVars, schedVars, docVars, cliVars,
                   pageVars, shutdown_requested, exc, pathIdx, attempt, soup,
                   all_data, sessVars, taskVars, drvVars, fetched, lateFetch,
                   reqCount, sleepCount, failCount, outcome>>

StaticExceptContinue ==
    /\ mode = "static" /\ pc = "except"
    /\ outcome' = [outcome EXCEPT ![pathIdx] = exc]
    /\ exc' = "none"
    /\ pc' = "while"
    /\ UNCHANGED <<cfgVars, nextVars, plugVars, schedVars, docVars, cliVars,
                   pageVars, shutdown_requested, pathIdx, current_url,
                   attempt, soup, all_data, sessVars, taskVars, drvVars,
                   fetched, hrefs, lateFetch, reqCount, sleepCount,
                   failCount>>

StaticExceptRaise ==
    /\ mode = "static" /\ pc = "except"
    /\ outcome' = [outcome EXCEPT ![pathIdx] = exc]
    /\ pc' = "raised"
    /\ UNCHANGED <<cfgVars, nextVars, plugVars, schedVars, docVars, cliVars,
                   pageVars, shutdown_requested, exc, pathIdx, current_url,
                   attempt, soup, all_data, sessVars, taskVars, drvVars,
                   fetched, hrefs, lateFetch, reqCount, sleepCount,
                   failCount>>

\* except Exception as e: logger.error(...); break.
StaticExcept ==
    /\ mode = "static" /\ pc = "except"
    /\ outcome' = [outcome EXCEPT ![pathIdx] = exc]
    /\ exc' = "none"
    /\ pc' = "for"
    /\ UNCHANGED <<cfgVars, nextVars, plugVars, schedVars, docVars, cliVars,
                   pageVars, shutdown_requested, pathIdx, current_url,
                   attempt, soup, all_data, sessVars, taskVars, drvVars,
                   fetched, hrefs, lateFetch, reqCount, sleepCount,
                   failCount>>

StaticNext_ ==
    \/ StaticConstruct \/ StaticScrapeBegin \/ StaticForPath \/ StaticWhile
    \/ StaticSleep \/ StaticResponse \/ StaticBackoff \/ StaticExtract
    \/ StaticNext \/ StaticExcept

\* ---- js mode: JSScraper -------------------------------------------------

\* cli.run: scraper = JSScraper(config_loader); __init__ leaves driver None.
JsConstruct ==
    /\ mode = "js" /\ pc = "init"
    /\ pc' = "scrape"
    /\ UNCHANGED <<cfgVars, nextVars, plugVars, schedVars, docVars, cliVars,
                   pageVars, shutdown_requested, exc, pathIdx, current_url,
                   attempt, soup, all_data, sessVars, taskVars, drvVars,
                   histVars>>

\* scrape(): all_data = []; try: self.setup_driver().  setup_driver either
\* assigns self.driver or logs and re-raises with self.driver still None.
JsSetup ==
    /\ mode = "js" /\ pc = "scrape"
    /\ all_data' = <<>>
    /\ \/ /\ driver' = "live"
          /\ pc' = "for"
          /\ exc' = exc
       \/ /\ exc' = "WebDriverError"
          /\ pc' = "outer_except"
          /\ driver' = driver
    /\ UNCHANGED <<cfgVars, nextVars, plugVars, schedVars, docVars, cliVars,
                   pageVars, shutdown_requested, pathIdx, current_url,
                   attempt, soup, sessVars, taskVars, quitCount,
                   screenshot_on_error, shots, shot_failed, histVars>>

\* for path in start_paths: current_url = urljoin(base_url, path); a
\* TypeError of urljoin is outside the inner try.
JsForPath ==
    /\ mode = "js" /\ pc = "for"
    /\ IF pathIdx < NumPaths
       THEN \/ /\ pathIdx' = pathIdx + 1
               /\ current_url' = StartUrl(pathIdx + 1)
               /\ pc' = "while"
               /\ exc' = exc
            \/ /\ exc' = "TypeError"
               /\ pc' = "outer_except"
               /\ UNCHANGED <<pathIdx, current_url>>
       ELSE /\ pc' = "finally"
            /\ UNCHANGED <<pathIdx, current_url, exc>>
    /\ UNCHANGED <<cfgVars, nextVars, plugVars, schedVars, docVars, cliVars,
                   pageVars, shutdown_requested, attempt, soup, all_data,
                   sessVars, taskVars, drvVars, histVars>>

\* while current_url: the page's try block is entered, or the loop ends.
JsWhile ==
    /\ mode = "js" /\ pc = "while"
    /\ IF current_url # None
       THEN /\ TotalFetches < MaxFetches
            /\ fetched' = [fetched EXCEPT ![pathIdx] = Append(@, current_url)]
            /\ lateFetch' = (lateFetch \/ shutdown_requested)
            /\ reqCount' = 0
            /\ sleepCount' = 0
            /\ failCount' = 0
            /\ pc' = "delay"
            /\ UNCHANGED outcome
       ELSE /\ outcome' = [outcome EXCEPT ![pathIdx] = "Done"]
            /\ pc' = "for"
            /\ UNCHANGED <<fetched, hrefs, lateFetch, reqCount, sleepCount,
                           failCount>>
    /\ UNCHANGED <<cfgVars, nextVars, plugVars, schedVars, docVars, cliVars,
                   pageVars, shutdown_requested, exc, pathIdx, current_url,
                   attempt, soup, all_data, sessVars, taskVars, drvVars,
                   hrefs>>

\* time.sleep(delay), then self.driver.get(current_url) is issued.
JsSleep ==
    /\ mode = "js" /\ pc = "delay"
    /\ sleepCount' = sleepCount + 1
    /\ reqCount' = reqCount + 1
    /\ pc' = "request"
    /\ UNCHANGED <<cfgVars, nextVars, plugVars, schedVars, docVars, cliVars,
                   pageVars, shutdown_requested, exc, pathIdx, current_url,
                   attempt, soup, all_data, sessVars, taskVars, drvVars,
                   fetched, hrefs, lateFetch, failCount, outcome>>

\* driver.get returns with the page loaded, or raises (WebDriverException,
\* page load timeout); there is no retry around it.
JsNavigate ==
    /\ mode = "js" /\ pc = "request"
    /\ \/ \E d \in Docs :
              /\ d.url = current_url
              /\ soup' = d
              /\ pc' = "extract"
              /\ UNCHANGED <<exc, failCount>>
       \/ /\ failCount' = failCount + 1
          /\ exc' = "WebDriverError"
          /\ pc' = "except"
          /\ soup' = soup
    /\ UNCHANGED <<cfgVars, nextVars, plugVars, schedVars, docVars, cliVars,
                   pageVars, shutdown_requested, pathIdx, current_url,
                   attempt, all_data, sessVars, taskVars, drvVars, fetched,
                   hrefs, lateFetch, reqCount, sleepCount, outcome>>

JsExtractTimeoutRaises ==
    /\ mode = "js" /\ pc = "extract"
    /\ IF ItemsOn(soup.url) = 0
       THEN /\ exc' = "TimeoutException"
            /\ pc' = "except"
            /\ all_data' = all_data
       ELSE \/ /\ all_data' = all_data \o extract_data(soup)
               /\ pc' = "next"
               /\ exc' = exc
            \/ /\ exc' = "ExtractError"
               /\ pc' = "except"
               /\ all_data' = all_data
    /\ UNCHANGED <<cfgVars, nextVars, plugVars, schedVars, docVars, cliVars,
                   pageVars, shutdown_requested, pathIdx, current_url,
                   attempt, soup, sessVars, taskVars, drvVars, histVars>>

\* data = self.extract_data(selectors); all_data.extend(data).  An item
\* selector that never appears gives []; find_elements may raise.
JsExtract ==
    /\ mode = "js" /\ pc = "extract"
    /\ \/ /\ all_data' = all_data \o extract_data(soup)
          /\ pc' = "next"
          /\ exc' = exc
       \/ /\ exc' = "ExtractError"
          /\ pc' = "except"
          /\ all_data' = all_data
    /\ UNCHANGED <<cfgVars, nextVars, plugVars, schedVars, docVars, cliVars,
                   pageVars, shutdown_requested, pathIdx, current_url,
                   attempt, soup, sessVars, taskVars, drvVars, histVars>>

\* current_url = self.get_next_page_url(current_url): the href of the
\* clickable next element, None after the wait timed out.
\* An exception of the wait other than TimeoutException (a stale element,
\* a lost browser) leaves get_next_page_url; the lookup saw no href.
JsNext ==
    /\ mode = "js" /\ pc = "next"
    /\ \/ /\ current_url' = get_next_page_url(soup, current_url)
          /\ hrefs' = [hrefs EXCEPT ![pathIdx] = Append(@, soup.next)]
          /\ pc' = "while"
          /\ exc' = exc
       \/ /\ exc' = "LookupError"
          /\ hrefs' = [hrefs EXCEPT ![pathIdx] = Append(@, NoHref)]
          /\ pc' = "except"
          /\ current_url' = current_url
    /\ UNCHANGED <<cfgVars, nextVars, plugVars, schedVars, docVars, cliVars,
                   pageVars, shutdown_requested, pathIdx, attempt, soup,
                   all_data, sessVars, taskVars, drvVars, fetched, lateFetch,
                   reqCount, sleepCount, failCount, outcome>>

\* take_screenshot does something only with a driver and with
\* screenshot_on_error set.
take_screenshot_enabled == driver # "none" /\ screenshot_on_error

JsExceptShotEscapes ==
    /\ mode = "js" /\ pc = "except"
    /\ outcome' = [outcome EXCEPT ![pathIdx] = exc]
    /\ IF take_screenshot_enabled
       THEN /\ shots' = [shots EXCEPT ![pathIdx] = Append(@, "tried")]
            /\ \/ /\ shot_failed' = shot_failed
                  /\ exc' = "none"
                  /\ pc' = "for"
               \/ /\ shot_failed' = TRUE
                  /\ exc' = "ScreenshotError"
                  /\ pc' = "outer_except"
       ELSE /\ shots' = [shots EXCEPT ![pathIdx] = Append(@, "skipped")]
            /\ shot_failed' = shot_failed
            /\ exc' = "none"
            /\ pc' = "for"
    /\ UNCHANGED <<cfgVars, nextVars, plugVars, schedVars, docVars, cliVars,
                   pageVars, shutdown_requested, pathIdx, current_url,
                   attempt, soup, all_data, sessVars, taskVars, driver,
                   quitCount, screenshot_on_error, fetched, hrefs, lateFetch,
                   reqCount, sleepCount, failCount>>

\* except Exception: logger.error; take_screenshot; break.  In
\* take_screenshot save_screenshot writes the file, or raises and the
\* error is logged there.
JsExcept ==
    /\ mode = "js" /\ pc = "except"
    /\ outcome' = [outcome EXCEPT ![pathIdx] = exc]
    /\ IF take_screenshot_enabled
       THEN /\ shots' = [shots EXCEPT ![pathIdx] = Append(@, "tried")]
            /\ \/ shot_failed' = shot_failed
               \/ shot_failed' = TRUE
       ELSE /\ shots' = [shots EXCEPT ![pathIdx] = Append(@, "skipped")]
            /\ shot_failed' = shot_failed
    /\ exc' = "none"
    /\ pc' = "for"
    /\ UNCHANGED <<cfgVars, nextVars, plugVars, schedVars, docVars, cliVars,
                   pageVars, shutdown_requested, pathIdx, current_url,
                   attempt, soup, all_data, sessVars, taskVars, driver,
                   quitCount, screenshot_on_error, fetched, hrefs, lateFetch,
                   reqCount, sleepCount, failCount>>

JsOuterExceptNoFinally ==
    /\ mode = "js" /\ pc = "outer_except"
    /\ pc' = "raised"
    /\ UNCHANGED <<cfgVars, nextVars, plugVars, schedVars, docVars, cliVars,
                   pageVars, shutdown_requested, exc, pathIdx, current_url,
                   attempt, soup, all_data, sessVars, taskVars, drvVars,
                   histVars>>

\* outer except Exception: logger.error("Error setting up WebDriver"); raise.
JsOuterExcept ==
    /\ mode = "js" /\ pc = "outer_except"
    /\ pc' = "finally"
    /\ UNCHANGED <<cfgVars, nextVars, plugVars, schedVars, docVars, cliVars,
                   pageVars, shutdown_requested, exc, pathIdx, current_url,
                   attempt, soup, all_data, sessVars, taskVars, drvVars,
                   histVars>>

\* finally: if self.driver: self.driver.quit(); then return all_data or
\* let the exception go on.
JsFinally ==
    /\ mode = "js" /\ pc = "finally"
    /\ IF driver # "none"
       THEN driver' = "quit" /\ quitCount' = quitCount + 1
       ELSE UNCHANGED <<driver, quitCount>>
    /\ pc' = IF exc = "none" THEN "returned" ELSE "raised"
    /\ UNCHANGED <<cfgVars, nextVars, plugVars, schedVars, docVars, cliVars,
                   pageVars, shutdown_requested, exc, pathIdx, current_url,
                   attempt, soup, all_data, sessVars, taskVars,
                   screenshot_on_error, shots, shot_failed, histVars>>

JsNext_ ==
    \/ JsConstruct \/ JsSetup \/ JsForPath \/ JsWhile \/ JsSleep
    \/ JsNavigate \/ JsExtract \/ JsNext \/ JsExcept \/ JsOuterExcept
    \/ JsFinally

\* ---- async mode: run_async_scraper / AsyncScraper -----------------------

\* AsyncScraper.__aenter__: a fresh Semaphore(global_concurrency) and a
\* fresh aiohttp.ClientSession replace whatever the fields held.
AEnter ==
    /\ semaphore' = global_concurrency
    /\ sessionsOpened' = sessionsOpened + 1
    /\ session' = sessionsOpened + 1
    /\ UNCHANGED sessionsClosed

\* AsyncScraper.__aexit__: if self.session: await self.session.close().
AExit ==
    /\ sessionsClosed' = IF session # None THEN sessionsClosed \cup {session}
                                            ELSE sessionsClosed
    /\ UNCHANGED <<session, sessionsOpened, semaphore>>

\* run_async_scraper: async with AsyncScraper(config_loader) as scraper.
AsyncEnterOuter ==
    /\ mode = "async" /\ pc = "init"
    /\ AEnter
    /\ pc' = "scrape"
    /\ UNCHANGED <<cfgVars, nextVars, plugVars, schedVars, docVars, cliVars,
                   pageVars, shutdown_requested, exc, pathIdx, current_url,
                   attempt, soup, all_data, tpc, tattempt, treq, tsleep,
                   tfail, results, linkDropped, doneOrder, drvVars, histVars>>

\* scrape(): all_data = []; urls = [urljoin(base_url, path) for path in
\* start_paths], which raises TypeError on a start path that is no string.
AsyncScrapeBegin ==
    /\ mode = "async" /\ pc = "scrape"
    /\ all_data' = <<>>
    /\ \/ pc' = "aenter_inner" /\ exc' = exc
       \/ pc' = "aexit_outer" /\ exc' = "TypeError"
    /\ UNCHANGED <<cfgVars, nextVars, plugVars, schedVars, docVars, cliVars,
                   pageVars, shutdown_requested, pathIdx, current_url,
                   attempt, soup, sessVars, taskVars, drvVars, histVars>>

\* scrape(): async with self: __aenter__ runs a second time; then one
\* scrape_single_page coroutine per url is handed to asyncio.gather.
AsyncEnterInner ==
    /\ mode = "async" /\ pc = "aenter_inner"
    /\ AEnter
    /\ tpc' = [i \in Paths |-> "new"]
    /\ pc' = "gather"
    /\ UNCHANGED <<cfgVars, nextVars, plugVars, schedVars, docVars, cliVars,
                   pageVars, shutdown_requested, exc, pathIdx, current_url,
                   attempt, soup, all_data, tattempt, treq, tsleep, tfail,
                   results, linkDropped, doneOrder, drvVars, histVars>>

\* The event loop runs the first step of task i (tasks start in creation
\* order): scrape_single_page calls fetch_page, first tenacity attempt.
TaskStart(i) ==
    /\ mode = "async" /\ pc = "gather"
    /\ tpc[i] = "new"
    /\ \A j \in Paths : j < i => tpc[j] # "new"
    /\ tattempt' = [tattempt EXCEPT ![i] = 1]
    /\ fetched' = [fetched EXCEPT ![i] = Append(@, StartUrl(i))]
    /\ lateFetch' = (lateFetch \/ shutdown_requested)
    /\ tpc' = [tpc EXCEPT ![i] = "acquire"]
    /\ UNCHANGED <<cfgVars, nextVars, plugVars, schedVars, docVars, cliVars,
                   pageVars, shutdown_requested, pc, exc, pathIdx,
                   current_url, attempt, soup, all_data, sessVars, semaphore,
                   treq, tsleep, tfail, results, linkDropped, doneOrder,
                   drvVars, hrefs, reqCount, sleepCount, failCount, outcome>>

\* asyncio.Semaphore.locked(): no slot is free.
lockedNever(sem) == FALSE

locked(sem) == sem <= 0

\* async with self.semaphore: the task gets a slot when one is free.
TaskAcquire(i) ==
    /\ mode = "async" /\ pc = "gather"
    /\ tpc[i] = "acquire"
    /\ ~locked(semaphore)
    /\ semaphore' = semaphore - 1
    /\ tpc' = [tpc EXCEPT ![i] = "delay"]
    /\ UNCHANGED <<cfgVars, nextVars, plugVars, schedVars, docVars, cliVars,
                   pageVars, shutdown_requested, pc, exc, pathIdx,
                   current_url, attempt, soup, all_data, sessVars, tattempt,
                   treq, tsleep, tfail, results, linkDropped, doneOrder,
                   drvVars, histVars>>

\* await asyncio.sleep(delay) is over; self.session.get(url) is issued.
TaskSleep(i) ==
    /\ mode = "async" /\ pc = "gather"
    /\ tpc[i] = "delay"
    /\ tsleep' = [tsleep EXCEPT ![i] = @ + 1]
    /\ treq' = [treq EXCEPT ![i] = @ + 1]
    /\ tpc' = [tpc EXCEPT ![i] = "request"]
    /\ UNCHANGED <<cfgVars, nextVars, plugVars, schedVars, docVars, cliVars,
                   pageVars, shutdown_requested, pc, exc, pathIdx,
                   current_url, attempt, soup, all_data, sessVars, semaphore,
                   tattempt, tfail, results, linkDropped, doneOrder, drvVars,
                   histVars>>

AfterPageFollow(d) == IF d.next # None THEN "new" ELSE "done"

\* scrape_single_page returns after the one page it fetched, whatever
\* next link the document carries.
AfterPage(d) == "done"

\* The request of task i ends and the semaphore block is left.  On
\* success fetch_page returns the soup and scrape_single_page returns
\* extract_data(soup, selectors); any exception (RetryError after the last
\* attempt, an error of extract_data) is logged and [] is returned.
TaskResponseLeaks(i) ==
    /\ mode = "async" /\ pc = "gather"
    /\ tpc[i] = "request"
    /\ \/ \E d \in Docs :
              /\ d.url = StartUrl(i)
              /\ semaphore' = semaphore + 1
              /\ linkDropped' = (linkDropped \/ d.next # None)
              /\ \/ /\ results' = [results EXCEPT ![i] = extract_data(d)]
                    /\ outcome' = [outcome EXCEPT ![i] = "Done"]
                 \/ /\ results' = [results EXCEPT ![i] = <<>>]
                    /\ outcome' = [outcome EXCEPT ![i] = "ExtractError"]
              /\ tpc' = [tpc EXCEPT ![i] = AfterPage(d)]
              /\ tfail' = tfail
       \/ /\ tfail' = [tfail EXCEPT ![i] = @ + 1]
          /\ semaphore' = semaphore
          /\ IF StopAfterAttempt(tattempt[i])
             THEN /\ results' = [results EXCEPT ![i] = <<>>]
                  /\ outcome' = [outcome EXCEPT ![i] = "RetryError"]
                  /\ tpc' = [tpc EXCEPT ![i] = "done"]
             ELSE /\ tpc' = [tpc EXCEPT ![i] = "backoff"]
                  /\ UNCHANGED <<results, outcome>>
          /\ linkDropped' = linkDropped
    /\ doneOrder' = IF tpc'[i] = "done" THEN Append(doneOrder, i)
                                          ELSE doneOrder
    /\ UNCHANGED <<cfgVars, nextVars, plugVars, schedVars, docVars, cliVars,
                   pageVars, shutdown_requested, pc, exc, pathIdx,
                   current_url, attempt, soup, all_data, sessVars, tattempt,
                   treq, tsleep, drvVars, fetched, hrefs, lateFetch, reqCount,
                   sleepCount, failCount>>

TaskResponse(i) ==
    /\ mode = "async" /\ pc = "gather"
    /\ tpc[i] = "request"
    /\ semaphore' = semaphore + 1
    /\ \/ \E d \in Docs :
              /\ d.url = StartUrl(i)
              /\ linkDropped' = (linkDropped \/ d.next # None)
              /\ \/ /\ results' = [results EXCEPT ![i] = extract_data(d)]
                    /\ outcome' = [outcome EXCEPT ![i] = "Done"]
                 \/ /\ results' = [results EXCEPT ![i] = <<>>]
                    /\ outcome' = [outcome EXCEPT ![i] = "ExtractError"]
              /\ tpc' = [tpc EXCEPT ![i] = AfterPage(d)]
              /\ tfail' = tfail
       \/ /\ tfail' = [tfail EXCEPT ![i] = @ + 1]
          /\ IF StopAfterAttempt(tattempt[i])
             THEN /\ results' = [results EXCEPT ![i] = <<>>]
                  /\ outcome' = [outcome EXCEPT ![i] = "RetryError"]
                  /\ tpc' = [tpc EXCEPT ![i] = "done"]
             ELSE /\ tpc' = [tpc EXCEPT ![i] = "backoff"]
                  /\ UNCHANGED <<results, outcome>>
          /\ linkDropped' = linkDropped
    /\ doneOrder' = IF tpc'[i] = "done" THEN Append(doneOrder, i)
                                          ELSE doneOrder
    /\ UNCHANGED <<cfgVars, nextVars, plugVars, schedVars, docVars, cliVars,
                   pageVars, shutdown_requested, pc, exc, pathIdx,
                   current_url, attempt, soup, all_data, sessVars, tattempt,
                   treq, tsleep, drvVars, fetched, hrefs, lateFetch, reqCount,
                   sleepCount, failCount>>

\* tenacity's wait between two attempts of task i, outside the semaphore.
TaskBackoff(i) ==
    /\ mode = "async" /\ pc = "gather"
    /\ tpc[i] = "backoff"
    /\ tattempt' = [tattempt EXCEPT ![i] = @ + 1]
    /\ tpc' = [tpc EXCEPT ![i] = "acquire"]
    /\ UNCHANGED <<cfgVars, nextVars, plugVars, schedVars, docVars, cliVars,
                   pageVars, shutdown_requested, pc, exc, pathIdx,
                   current_url, attempt, soup, all_data, sessVars, semaphore,
                   treq, tsleep, tfail, results, linkDropped, doneOrder,
                   drvVars, histVars>>

RECURSIVE Concat(_, _)
Concat(r, n) == IF n = 0 THEN <<>> ELSE Concat(r, n - 1) \o r[n]

GatherFailFast ==
    \/ \A i \in Paths : tpc[i] = "done"
    \/ \E i \in Paths : outcome[i] = "RetryError"

\* gather(..., return_exceptions=True) over coroutines that catch every
\* exception: it is over when every task has returned.
GatherDone == \A i \in Paths : tpc[i] = "done"

RECURSIVE ConcatIn(_, _)
\* The lists r[i] joined in the order the indices have in the sequence o.
ConcatIn(r, o) == IF o = <<>> THEN <<>> ELSE r[Head(o)] \o ConcatIn(r, Tail(o))

AsyncGatherAsCompleted ==
    /\ mode = "async" /\ pc = "gather"
    /\ GatherDone
    /\ all_data' = all_data \o ConcatIn(results, doneOrder)
    /\ pc' = "aexit_inner"
    /\ UNCHANGED <<cfgVars, nextVars, plugVars, schedVars, docVars, cliVars,
                   pageVars, shutdown_requested, exc, pathIdx, current_url,
                   attempt, soup, sessVars, taskVars, drvVars, histVars>>

\* results = await asyncio.gather(*tasks, return_exceptions=True) returns
\* once every task is done; the for loop extends all_data by each result
\* in the order of urls.
AsyncGather ==
    /\ mode = "async" /\ pc = "gather"
    /\ GatherDone
    /\ all_data' = all_data \o Concat(results, NumPaths)
    /\ pc' = "aexit_inner"
    /\ UNCHANGED <<cfgVars, nextVars, plugVars, schedVars, docVars, cliVars,
                   pageVars, shutdown_requested, exc, pathIdx, current_url,
                   attempt, soup, sessVars, taskVars, drvVars, histVars>>

\* End of "async with self" in scrape(): __aexit__, then return all_data.
AsyncExitInner ==
    /\ mode = "async" /\ pc = "aexit_inner"
    /\ AExit
    /\ pc' = "aexit_outer"
    /\ UNCHANGED <<cfgVars, nextVars, plugVars, schedVars, docVars, cliVars,
                   pageVars, shutdown_requested, exc, pathIdx, current_url,
                   attempt, soup, all_data, tpc, tattempt, treq, tsleep,
                   tfail, results, linkDropped, doneOrder, drvVars, histVars>>

\* End of "async with AsyncScraper(...)" in run_async_scraper: __aexit__
\* again, then the result or the exception leaves run_async_scraper.
AsyncExitOuter ==
    /\ mode = "async" /\ pc = "aexit_outer"
    /\ AExit
    /\ pc' = IF exc = "none" THEN "returned" ELSE "raised"
    /\ UNCHANGED <<cfgVars, nextVars, plugVars, schedVars, docVars, cliVars,
                   pageVars, shutdown_requested, exc, pathIdx, current_url,
                   attempt, soup, all_data, tpc, tattempt, treq, tsleep,
                   tfail, results, linkDropped, doneOrder, drvVars, histVars>>

AsyncNext_ ==
    \/ AsyncEnterOuter \/ AsyncScrapeBegin \/ AsyncEnterInner
    \/ \E i \in Paths : TaskStart(i)
    \/ \E i \in Paths : TaskAcquire(i)
    \/ \E i \in Paths : TaskSleep(i)
    \/ \E i \in Paths : TaskResponse(i)
    \/ \E i \in Paths : TaskBackoff(i)
    \/ AsyncGather \/ AsyncExitInner \/ AsyncExitOuter

Next == Signal \/ StaticNext_ \/ JsNext_ \/ AsyncNext_

Spec == Init /\ [][Next]_vars

\* A run of the static backend alone.  The main thread always takes its
\* next step: time.sleep and tenacity's waits end, session.get(timeout=30)
\* answers or raises.
StaticInit == Init /\ mode = "static"

StaticRun == Signal \/ StaticNext_

StaticLive == StaticInit /\ [][StaticRun]_vars /\ WF_vars(StaticNext_)

\* The concurrent backend alone, on either site.
AsyncInit ==
    /\ site \in Sites
    /\ mode = "async"
    /\ global_concurrency \in 1..MaxConcurrency
    /\ RunStart
    /\ screenshot_on_error = TRUE
    /\ PageIdle /\ DocIdle /\ CliIdle /\ LibIdle

AsyncRun == Signal \/ AsyncNext_

AsyncSpec == AsyncInit /\ [][AsyncRun]_vars

\* The rendered backend alone, with selenium.screenshot_on_error either
\* way.
JsInit == RunInit /\ mode = "js" /\ PageIdle /\ DocIdle /\ CliIdle /\ LibIdle

JsRun == Signal \/ JsNext_

JsSpec == JsInit /\ [][JsRun]_vars

\* ---- one page in detail: rate limit, tenacity waits, extraction ---------
\* Durations of sleeps are counted in ticks (TicksPerSecond ticks to the
\* second), tenacity's waits in whole seconds.

\* An optional value of the configuration: <<>> is an absent key (None).
Opt(S) == {<<>>} \cup {<<v>> : v \in S}

\* ConfigLoader.get_nested("rate_limit", key): the value, None if absent.
get_nested(key) == rate_limit[key]

\* Python's "x or default": the default replaces None and any falsy value.
OrElse(x, falsy, default) ==
    IF x = <<>> \/ x[1] = falsy THEN default ELSE x[1]

RECURSIVE Pow2(_)
Pow2(n) == IF n <= 0 THEN 1 ELSE 2 * Pow2(n - 1)

Min(a, b) == IF a <= b THEN a ELSE b

Max(a, b) == IF a >= b THEN a ELSE b

wait_exponentialNoMin(e) == Min(WaitMultiplier * Pow2(e), WaitMax)

\* tenacity wait_exponential(multiplier=1, min=4, max=10) for exponent e:
\* multiplier * 2^e clamped to [min, max].
wait_exponential(e) ==
    Max(Max(0, WaitMin), Min(WaitMultiplier * Pow2(e), WaitMax))

ItemKinds == {"ok", "bad"}
FieldKinds == {"ok", "bad_selector", "not_mapping"}

\* extract_data returned a list of n items / raised.
Returned(n) == [raised |-> FALSE, items |-> [k \in 1..n |-> k]]
Raised == [raised |-> TRUE, items |-> <<>>]

extract_resultsStrict(m, sel, n) ==
    IF sel.item = "bad" \/ n = 0 THEN {Raised} ELSE {Returned(n)}

\* What extract_data can do on a page where the item selector matches n
\* elements.  static, async: soup.select raises on a malformed item
\* selector; with items, a fields value that is no mapping or holds a
\* malformed selector raises.  js: a timeout of the wait for the item
\* selector returns []; a malformed item selector raises or times out
\* (selenium release); errors of a field are caught per field, but a
\* fields value that is no mapping raises once there is an item.
extract_results(m, sel, n) ==
    IF m = "js"
    THEN IF sel.item = "bad" THEN {Raised, Returned(0)}
         ELSE IF n = 0 THEN {Returned(0)}
         ELSE IF sel.fields = "not_mapping" THEN {Raised}
         ELSE {Returned(n)}
    ELSE IF sel.item = "bad" THEN {Raised}
         ELSE IF n > 0 /\ sel.fields # "ok" THEN {Raised}
         ELSE {Returned(n)}

PageInit ==
    /\ RunInit
    /\ screenshot_on_error = TRUE
    /\ DocIdle /\ CliIdle /\ LibIdle
    /\ rate_limit \in [delay_seconds : Opt(0..MaxDelay), jitter : Opt(BOOLEAN)]
    /\ delay_seconds = 0
    /\ jitter = FALSE
    /\ delay = 0
    /\ waits = <<>>
    /\ selectors \in [item : ItemKinds, fields : FieldKinds]
    /\ matched \in 0..MaxItems
    /\ items = <<>>

\* __init__ of a scraper: the rate limit fields are read from the config;
\* then fetch_page is called (first tenacity attempt).
PageConstruct ==
    /\ pc = "init"
    /\ delay_seconds' = OrElse(get_nested("delay_seconds"), 0,
                               DefaultDelaySeconds * TicksPerSecond)
    /\ jitter' = OrElse(get_nested("jitter"), FALSE, FALSE)
    /\ attempt' = 1
    /\ pc' = "delay"
    /\ UNCHANGED <<cfgVars, nextVars, plugVars, schedVars, docVars, cliVars,
                   shutdown_requested, exc, pathIdx, current_url, soup,
                   all_data, sessVars, taskVars, drvVars, histVars,
                   rate_limit, delay, waits, selectors, matched, items>>

\* delay = self.delay_seconds; if self.jitter: delay += random.uniform(0,
\* 1); sleep(delay); then the request (the navigation) is issued.
PageSleep ==
    /\ pc = "delay"
    /\ \E r \in 0..(TicksPerSecond - 1) :
           /\ jitter \/ r = 0
           /\ delay' = delay_seconds + (IF jitter THEN r ELSE 0)
    /\ pc' = "request"
    /\ UNCHANGED <<cfgVars, nextVars, plugVars, schedVars, docVars, cliVars,
                   shutdown_requested, exc, pathIdx, current_url, attempt,
                   soup, all_data, sessVars, taskVars, drvVars, histVars,
                   rate_limit, delay_seconds, jitter, waits, selectors,
                   matched, items>>

\* The request ends: with the page, or with a failure that tenacity
\* retries (static, async) until the last attempt; driver.get is not
\* retried.
PageResponse ==
    /\ pc = "request"
    /\ \/ pc' = "extract" /\ exc' = exc
       \/ IF mode = "js"
          THEN exc' = "WebDriverError" /\ pc' = "failed"
          ELSE IF StopAfterAttempt(attempt)
               THEN exc' = "RetryError" /\ pc' = "failed"
               ELSE exc' = exc /\ pc' = "backoff"
    /\ UNCHANGED <<cfgVars, nextVars, plugVars, schedVars, docVars, cliVars,
                   shutdown_requested, pathIdx, current_url, attempt, soup,
                   all_data, sessVars, taskVars, drvVars, histVars, pageVars>>

\* tenacity sleeps wait_exponential before the next attempt.  The exponent
\* for the wait after attempt n is n - 1 in current releases of tenacity
\* and n in earlier ones.
PageBackoff ==
    /\ pc = "backoff"
    /\ \E e \in {attempt - 1, attempt} :
           waits' = Append(waits, wait_exponential(e))
    /\ attempt' = attempt + 1
    /\ pc' = "delay"
    /\ UNCHANGED <<cfgVars, nextVars, plugVars, schedVars, docVars, cliVars,
                   shutdown_requested, exc, pathIdx, current_url, soup,
                   all_data, sessVars, taskVars, drvVars, histVars,
                   rate_limit, delay_seconds, jitter, delay, selectors,
                   matched, items>>

\* extract_data runs on the fetched page.
PageExtract ==
    /\ pc = "extract"
    /\ \E r \in extract_results(mode, selectors, matched) :
           IF r.raised
           THEN exc' = "ExtractError" /\ pc' = "failed" /\ items' = items
           ELSE exc' = exc /\ pc' = "done" /\ items' = r.items
    /\ UNCHANGED <<cfgVars, nextVars, plugVars, schedVars, docVars, cliVars,
                   shutdown_requested, pathIdx, current_url, attempt, soup,
                   all_data, sessVars, taskVars, drvVars, histVars,
                   rate_limit, delay_seconds, jitter, delay, waits, selectors,
                   matched>>

PageNext ==
    \/ PageConstruct \/ PageSleep \/ PageResponse \/ PageBackoff
    \/ PageExtract

PageSpec == PageInit /\ [][PageNext]_vars

\* ================= extract_data on a parsed document ====================
\* A text is a sequence of characters, "_" standing for white space.  An
\* element has a text and attributes, a sequence of <<name, value>>.  A
\* document is the sequence, in document order, of its nodes: an element
\* the item selector matches (item) or not, each with the elements of its
\* subtree that the css selector of the fields matches (kids), in order.

MaxNodes == 2
MaxFields == 2

Elem1 == [text |-> <<"_", "x", "_">>, attrs |-> <<>>]
Elem2 == [text |-> <<"y">>, attrs |-> <<<<"data-id", <<"v">>>>>>]

KidLists == {<<>>, <<Elem1>>, <<Elem2>>, <<Elem1, Elem2>>}
Nodes == [item : BOOLEAN, kids : KidLists]
Documents == UNION {[1..n -> Nodes] : n \in 0..MaxNodes}

\* The field selectors of a config: a css string, well formed or not, or
\* a mapping {"selector": css, "attr": name}, attr defaulting to "text".
Simple == [type |-> "str", css |-> "ok", attr |-> ""]
Malformed == [type |-> "str", css |-> "malformed", attr |-> ""]
TextOf == [type |-> "dict", css |-> "ok", attr |-> "text"]
Attributed == [type |-> "dict", css |-> "ok", attr |-> "data-id"]
FieldSelectors == {Simple, Malformed, TextOf, Attributed}
FieldConfigs == UNION {[1..n -> FieldSelectors] : n \in 0..MaxFields}

\* The values of a field: a string, a list of strings, null.
Str(t) == [kind |-> "str", v |-> t]
ListOf(l) == [kind |-> "list", v |-> l]
Null == [kind |-> "null", v |-> <<>>]

RECURSIVE lstrip(_)
lstrip(t) == IF t # <<>> /\ Head(t) = "_" THEN lstrip(Tail(t)) ELSE t

RECURSIVE rstrip(_)
rstrip(t) ==
    IF t # <<>> /\ t[Len(t)] = "_"
    THEN rstrip(SubSeq(t, 1, Len(t) - 1)) ELSE t

\* str.strip; get_text(strip=True) on an element with one text node.
strip(t) == rstrip(lstrip(t))
get_text(e) == strip(e.text)

\* Tag.get(attr, ""): the attribute, or "" when the element lacks it.
get(e, attr) ==
    IF \E k \in 1..Len(e.attrs) : e.attrs[k][1] = attr
    THEN Str(e.attrs[CHOOSE k \in 1..Len(e.attrs) : e.attrs[k][1] = attr][2])
    ELSE Str(<<>>)

\* WebElement.get_attribute(attr): the attribute, or None when the
\* element has neither an attribute nor a property of that name.
get_attribute(e, attr) ==
    IF \E k \in 1..Len(e.attrs) : e.attrs[k][1] = attr
    THEN Str(e.attrs[CHOOSE k \in 1..Len(e.attrs) : e.attrs[k][1] = attr][2])
    ELSE Null

\* soup.select(item_selector), driver.find_elements: in document order.
select_items(doc) == SelectSeq(doc, LAMBDA n : n.item)

RECURSIVE Flatten(_)
Flatten(doc) ==
    IF doc = <<>> THEN <<>> ELSE Head(doc).kids \o Flatten(Tail(doc))

selectDocument(element) == Flatten(document)

\* element.select(css), element.find_elements: within the element.
select(element) == element.kids

Value(v) == [raised |-> FALSE, value |-> v]
Raises == [raised |-> TRUE, value |-> Null]

field_valueFirstOnly(b, element, selector) ==
    IF selector.css = "malformed"
    THEN IF b = "js" THEN Value(Str(<<>>)) ELSE Raises
    ELSE LET elements == select(element) IN
         IF elements = <<>> THEN Value(Str(<<>>))
         ELSE IF selector.type = "str" \/ selector.attr = "text"
              THEN Value(Str(get_text(elements[1])))
              ELSE Value(IF b = "js"
                         THEN get_attribute(elements[1], selector.attr)
                         ELSE get(elements[1], selector.attr))

\* The body of the loop over field_selectors.items() for one field of one
\* item element.  A malformed css selector makes select raise; the
\* rendered backend alone catches that per field and puts "".
field_value(b, element, selector) ==
    IF selector.css = "malformed"
    THEN IF b = "js" THEN Value(Str(<<>>)) ELSE Raises
    ELSE LET elements == select(element) IN
         IF selector.type = "str"
         THEN IF elements # <<>>
              THEN IF Len(elements) > 1
                   THEN Value(ListOf([k \in 1..Len(elements) |->
                                         get_text(elements[k])]))
                   ELSE Value(Str(get_text(elements[1])))
              ELSE Value(Str(<<>>))
         ELSE IF elements # <<>>
              THEN IF selector.attr = "text"
                   THEN Value(Str(get_text(elements[1])))
                   ELSE Value(IF b = "js"
                              THEN get_attribute(elements[1], selector.attr)
                              ELSE get(elements[1], selector.attr))
              ELSE Value(Str(<<>>))

\* Each field of each item element, as the loops evaluate them.
field_values(b, doc, fields) ==
    LET item_elements == select_items(doc) IN
    [i \in 1..Len(item_elements) |->
        [f \in 1..Len(fields) |-> field_value(b, item_elements[i], fields[f])]]

AllEmpty(item_data) ==
    \A f \in 1..Len(item_data) : item_data[f] = Str(<<>>)

extract_itemsDropEmpty(b, doc, fields) ==
    LET vals == field_values(b, doc, fields) IN
    IF \E i \in 1..Len(vals) : \E f \in 1..Len(fields) : vals[i][f].raised
    THEN [status |-> "raised", items |-> <<>>]
    ELSE [status |-> "returned",
          items |-> SelectSeq([i \in 1..Len(vals) |->
                                  [f \in 1..Len(fields) |-> vals[i][f].value]],
                              LAMBDA r : ~AllEmpty(r))]

\* extract_data: one item_data per item element, a field per entry of
\* field_selectors; an exception of a field evaluation that is not caught
\* leaves extract_data.  (The rendered backend first waits for the item
\* selector and returns [] on TimeoutException.)
extract_items(b, doc, fields) ==
    LET vals == field_values(b, doc, fields) IN
    IF b = "js" /\ select_items(doc) = <<>>
    THEN [status |-> "returned", items |-> <<>>]
    ELSE IF \E i \in 1..Len(vals) :
                \E f \in 1..Len(fields) : vals[i][f].raised
         THEN [status |-> "raised", items |-> <<>>]
         ELSE [status |-> "returned",
               items |-> [i \in 1..Len(vals) |->
                             [f \in 1..Len(fields) |-> vals[i][f].value]]]

ExtractInit ==
    /\ RunInit
    /\ screenshot_on_error = TRUE
    /\ PageIdle /\ CliIdle /\ LibIdle
    /\ document \in Documents
    /\ field_selectors \in FieldConfigs
    /\ extracted = [status |-> "pending", items |-> <<>>]

\* StaticScraper.extract_data and AsyncScraper.extract_data (the same
\* code) on the parsed soup.
SoupExtract ==
    /\ mode \in {"static", "async"} /\ extracted.status = "pending"
    /\ extracted' = extract_items(mode, document, field_selectors)
    /\ UNCHANGED <<cfgVars, nextVars, plugVars, schedVars, cliVars, pageVars,
                   shutdown_requested, pc, exc, pathIdx, current_url, attempt,
                   soup, all_data, sessVars, taskVars, drvVars, histVars,
                   document, field_selectors>>

\* JSScraper.extract_data on the live DOM.
DomExtract ==
    /\ mode = "js" /\ extracted.status = "pending"
    /\ extracted' = extract_items(mode, document, field_selectors)
    /\ UNCHANGED <<cfgVars, nextVars, plugVars, schedVars, cliVars, pageVars,
                   shutdown_requested, pc, exc, pathIdx, current_url, attempt,
                   soup, all_data, sessVars, taskVars, drvVars, histVars,
                   document, field_selectors>>

ExtractNext == SoupExtract \/ DomExtract

ExtractSpec == ExtractInit /\ [][ExtractNext]_vars

\* ========================= cli.py: run ==================================
\* One invocation of run with a loaded config.  The scraper is seen from
\* outside: scrape() gives a list of records or raises.

StorageTypes == {"csv", "jsonl", "sqlite", "xml"}
Faults == {"none", "construct", "setup", "scrape", "makedirs", "save"}

Notification(kind, text, count) ==
    [kind |-> kind, text |-> text, count |-> count]

\* config_loader.py: load_config -----------------------------------------

required_fields ==
    <<"name", "mode", "base_url", "start_paths", "selectors", "storage">>
Required == {required_fields[k] : k \in 1..Len(required_fields)}
Optional ==
    {"user_agents", "rate_limit", "concurrency", "proxies", "telegram",
     "selenium"}

\* A value of the loaded config: the file's, or the one setdefault puts.
FromFile(k) == [from |-> "file", key |-> k]
Default(k) ==
    CASE k = "user_agents" -> <<>>
      [] k = "rate_limit" ->
            [delay_seconds |-> DefaultDelaySeconds, jitter |-> FALSE]
      [] k = "concurrency" -> [global |-> 5, per_domain |-> 2]
      [] k = "proxies" ->
            [enabled |-> FALSE, list |-> <<>>, validate |-> TRUE]
      [] k = "telegram" ->
            [enabled |-> FALSE, bot_token |-> "", chat_id |-> ""]
      [] k = "selenium" ->
            [remote_url |-> "", headless |-> TRUE,
             screenshot_on_error |-> TRUE]

load_configLazy(file) ==
    [status |-> "loaded", field |-> "",
     values |-> [k \in file.keys \cup Optional |->
                    IF k \in file.keys THEN FromFile(k) ELSE Default(k)]]

\* load_config on a file that exists: ValueError for the first required
\* field the file lacks, else the file's entries with the defaults of the
\* optional fields it lacks.
load_config(file) ==
    IF Required \subseteq file.keys
    THEN [status |-> "loaded", field |-> "",
          values |-> [k \in file.keys \cup Optional |->
                         IF k \in file.keys THEN FromFile(k) ELSE Default(k)]]
    ELSE [status |-> "ValueError",
          field |-> required_fields[
                        CHOOSE k \in 1..Len(required_fields) :
                            /\ required_fields[k] \notin file.keys
                            /\ \A j \in 1..(k - 1) :
                                  required_fields[j] \in file.keys],
          values |-> <<>>]

ConfigFiles ==
    {[exists |-> TRUE, keys |-> R \cup O] :
        R \in SUBSET Required, O \in SUBSET Optional} \cup {NoFile}

\* notifier.py: the channels, in the order every notify_* tries them.
ChannelOrder == <<"telegram", "email", "webhook">>
Channels == {ChannelOrder[k] : k \in 1..Len(ChannelOrder)}

\* The deliveries one notify_* call tries: one per channel that is
\* enabled and configured, each ending well or in an exception that the
\* send_* method catches and logs.
Deliveries(event, ok) ==
    LET on == SelectSeq(ChannelOrder, LAMBDA c : c \in channels)
    IN  [k \in 1..Len(on) |->
            [event |-> event, channel |-> on[k], ok |-> ok[on[k]]]]

\* run, up to the notifier: the config file is settled (--config, the
\* target's file or config.json) and loaded.  Nothing below the loading
\* is inside a try.
ConfigInit ==
    /\ site = "A"
    /\ mode = "static"
    /\ global_concurrency = 1
    /\ RunStart
    /\ screenshot_on_error = TRUE
    /\ PageIdle /\ DocIdle /\ LibIdle
    /\ config_file \in ConfigFiles
    /\ config = NotLoaded
    /\ channels \in {{}, {"webhook"}}
    /\ outbound = <<>>
    /\ dry_run = FALSE
    /\ storage_type = "csv"
    /\ transformations = FALSE
    /\ fault = "none"
    /\ yield = 0
    /\ cpc = "load"
    /\ data = <<>>
    /\ calls = <<>>
    /\ notifications = <<>>
    /\ written = [dir |-> FALSE, rows |-> <<>>]
    /\ exit_status = NotExited
    /\ cexc = "none"

\* ConfigLoader(path): FileNotFoundError or ValueError leave run as they
\* are raised; a target's or the default file that does not exist:
\* echo and sys.exit(1).
CliLoad ==
    /\ cpc = "load"
    /\ \E source \in {"config", "target", "default"} :
           IF config_file.exists
           THEN config' = load_config(config_file)
           ELSE config' = [NotLoaded EXCEPT
                              !.status = IF source = "config"
                                         THEN "FileNotFoundError"
                                         ELSE "SystemExit"]
    /\ IF config'.status = "loaded"
       THEN cpc' = "start" /\ exit_status' = exit_status
       ELSE cpc' = "exited" /\ exit_status' = 1
    /\ UNCHANGED <<cfgVars, nextVars, plugVars, schedVars, docVars, pageVars,
                   shutdown_requested, pc, exc, pathIdx, current_url, attempt,
                   soup, all_data, sessVars, taskVars, drvVars, histVars,
                   dry_run, storage_type, transformations, fault, yield,
                   channels, config_file, outbound, data, calls,
                   notifications, written, cexc>>

CliInit ==
    /\ site = "A"
    /\ mode \in Modes \cup {"other"}
    /\ global_concurrency = 1
    /\ RunStart
    /\ screenshot_on_error = TRUE
    /\ PageIdle /\ DocIdle /\ LibIdle
    /\ config_file = [exists |-> TRUE, keys |-> Required]
    /\ config = load_config(config_file)
    /\ channels \in SUBSET Channels
    /\ outbound = <<>>
    /\ dry_run \in BOOLEAN
    /\ storage_type \in StorageTypes
    /\ transformations \in BOOLEAN
    /\ fault \in Faults
    /\ yield \in 0..MaxItems
    /\ cpc = "start"
    /\ data = <<>>
    /\ calls = <<>>
    /\ notifications = <<>>
    /\ written = [dir |-> FALSE, rows |-> <<>>]
    /\ exit_status = NotExited
    /\ cexc = "none"

CliStartRaises ==
    /\ cpc = "start"
    /\ calls' = Append(calls, "notify_start")
    /\ notifications' = Append(notifications, Notification("start", "", 0))
    /\ \E ok \in [channels -> BOOLEAN] :
           /\ outbound' = outbound \o Deliveries("start", ok)
           /\ IF \E c \in channels : ~ok[c]
              THEN cpc' = "exited" /\ exit_status' = 1
              ELSE cpc' = "mode" /\ exit_status' = exit_status
    /\ UNCHANGED <<cfgVars, nextVars, plugVars, schedVars, docVars, pageVars,
                   shutdown_requested, pc, exc, pathIdx, current_url, attempt,
                   soup, all_data, sessVars, taskVars, drvVars, histVars,
                   dry_run, storage_type, transformations, fault, yield,
                   channels, config_file, config, data, written, cexc>>

\* Notifier, ResilienceManager, MetricsManager; notifier.notify_start.
CliStart ==
    /\ cpc = "start"
    /\ calls' = Append(calls, "notify_start")
    /\ notifications' = Append(notifications, Notification("start", "", 0))
    /\ \E ok \in [channels -> BOOLEAN] :
           outbound' = outbound \o Deliveries("start", ok)
    /\ cpc' = "mode"
    /\ UNCHANGED <<cfgVars, nextVars, plugVars, schedVars, docVars, pageVars,
                   shutdown_requested, pc, exc, pathIdx, current_url, attempt,
                   soup, all_data, sessVars, taskVars, drvVars, histVars,
                   dry_run, storage_type, transformations, fault, yield,
                   channels, config_file, config, data, written, exit_status,
                   cexc>>

\* try: the scraper for the mode is constructed (async: later, in
\* run_async_scraper); any other mode: echo and sys.exit(1), which the
\* except Exception below does not catch.
CliConstruct ==
    /\ cpc = "mode"
    /\ IF mode \in {"static", "js"}
       THEN /\ calls' = Append(calls, "construct")
            /\ IF fault = "construct"
               THEN cexc' = "construct" /\ cpc' = "except"
               ELSE cexc' = cexc /\ cpc' = "scrape"
            /\ exit_status' = exit_status
       ELSE IF mode = "async"
            THEN /\ cpc' = "scrape"
                 /\ UNCHANGED <<calls, cexc, exit_status>>
            ELSE /\ exit_status' = 1
                 /\ cpc' = "exited"
                 /\ UNCHANGED <<calls, cexc>>
    /\ UNCHANGED <<cfgVars, nextVars, plugVars, schedVars, docVars, pageVars,
                   shutdown_requested, pc, exc, pathIdx, current_url, attempt,
                   soup, all_data, sessVars, taskVars, drvVars, histVars,
                   dry_run, storage_type, transformations, fault, yield,
                   channels, config_file, config, outbound, data,
                   notifications, written>>

\* What scrape() raises, if it does: setup_driver's exception re-raised
\* by JSScraper.scrape, the constructor's inside run_async_scraper, or
\* another exception leaving scrape.
ScrapeRaises ==
    \/ fault = "scrape"
    \/ fault = "setup" /\ mode = "js"
    \/ fault = "construct" /\ mode = "async"

\* data = scraper.scrape(), or asyncio.run(run_async_scraper(...)).
CliScrape ==
    /\ cpc = "scrape"
    /\ calls' = IF mode = "async"
                THEN calls \o <<"construct", "scrape">>
                ELSE Append(calls, "scrape")
    /\ IF ScrapeRaises
       THEN cexc' = fault /\ cpc' = "except" /\ data' = data
       ELSE /\ data' = [k \in 1..yield |-> [raw |-> k, transformed |-> FALSE]]
            /\ cpc' = "transform"
            /\ cexc' = cexc
    /\ UNCHANGED <<cfgVars, nextVars, plugVars, schedVars, docVars, pageVars,
                   shutdown_requested, pc, exc, pathIdx, current_url, attempt,
                   soup, all_data, sessVars, taskVars, drvVars, histVars,
                   dry_run, storage_type, transformations, fault, yield,
                   channels, config_file, config, outbound, notifications,
                   written, exit_status>>

\* if transformations: every item goes through apply_transformations.
CliTransform ==
    /\ cpc = "transform"
    /\ IF transformations
       THEN /\ calls' = Append(calls, "apply_transformations")
            /\ data' = [k \in 1..Len(data) |->
                           [data[k] EXCEPT !.transformed = TRUE]]
       ELSE UNCHANGED <<calls, data>>
    /\ cpc' = "dry_run"
    /\ UNCHANGED <<cfgVars, nextVars, plugVars, schedVars, docVars, pageVars,
                   shutdown_requested, pc, exc, pathIdx, current_url, attempt,
                   soup, all_data, sessVars, taskVars, drvVars, histVars,
                   dry_run, storage_type, transformations, fault, yield,
                   channels, config_file, config, outbound, notifications,
                   written, exit_status, cexc>>

CliDryRunSaves ==
    /\ cpc = "dry_run"
    /\ IF dry_run
       THEN /\ calls' = Append(calls, "echo")
            /\ cpc' = "storage"
       ELSE /\ cpc' = "storage"
            /\ calls' = calls
    /\ exit_status' = exit_status
    /\ UNCHANGED <<cfgVars, nextVars, plugVars, schedVars, docVars, pageVars,
                   shutdown_requested, pc, exc, pathIdx, current_url, attempt,
                   soup, all_data, sessVars, taskVars, drvVars, histVars,
                   dry_run, storage_type, transformations, fault, yield,
                   channels, config_file, config, outbound, data,
                   notifications, written, cexc>>

\* if dry_run: echo the count and the first items; return.
CliDryRun ==
    /\ cpc = "dry_run"
    /\ IF dry_run
       THEN /\ calls' = Append(calls, "echo")
            /\ cpc' = "returned"
            /\ exit_status' = 0
       ELSE /\ cpc' = "storage"
            /\ UNCHANGED <<calls, exit_status>>
    /\ UNCHANGED <<cfgVars, nextVars, plugVars, schedVars, docVars, pageVars,
                   shutdown_requested, pc, exc, pathIdx, current_url, attempt,
                   soup, all_data, sessVars, taskVars, drvVars, histVars,
                   dry_run, storage_type, transformations, fault, yield,
                   channels, config_file, config, outbound, data,
                   notifications, written, cexc>>

\* storage = DataStorage(storage_config): __init__ makes the directory of
\* the storage path.
CliStorage ==
    /\ cpc = "storage"
    /\ calls' = Append(calls, "DataStorage")
    /\ IF fault = "makedirs"
       THEN cexc' = "makedirs" /\ cpc' = "except" /\ written' = written
       ELSE /\ written' = [written EXCEPT !.dir = TRUE]
            /\ cpc' = "save"
            /\ cexc' = cexc
    /\ UNCHANGED <<cfgVars, nextVars, plugVars, schedVars, docVars, pageVars,
                   shutdown_requested, pc, exc, pathIdx, current_url, attempt,
                   soup, all_data, sessVars, taskVars, drvVars, histVars,
                   dry_run, storage_type, transformations, fault, yield,
                   channels, config_file, config, outbound, data,
                   notifications, exit_status>>

CliSaveSwallows ==
    /\ cpc = "save"
    /\ calls' = Append(calls, "save")
    /\ IF storage_type \notin {"csv", "jsonl", "sqlite"} \/ fault = "save"
       THEN written' = written
       ELSE written' = [written EXCEPT !.rows = @ \o data]
    /\ cpc' = "complete"
    /\ cexc' = cexc
    /\ UNCHANGED <<cfgVars, nextVars, plugVars, schedVars, docVars, pageVars,
                   shutdown_requested, pc, exc, pathIdx, current_url, attempt,
                   soup, all_data, sessVars, taskVars, drvVars, histVars,
                   dry_run, storage_type, transformations, fault, yield,
                   channels, config_file, config, outbound, data,
                   notifications, exit_status>>

\* storage.save(data): by storage type; ValueError for any other type.
\* _save_csv writes nothing for an empty list.
CliSave ==
    /\ cpc = "save"
    /\ calls' = Append(calls, "save")
    /\ IF storage_type \notin {"csv", "jsonl", "sqlite"}
       THEN /\ cexc' = "Unsupported storage type"
            /\ cpc' = "except"
            /\ written' = written
       ELSE IF fault = "save"
            THEN cexc' = "save" /\ cpc' = "except" /\ written' = written
            ELSE /\ written' = [written EXCEPT !.rows = @ \o data]
                 /\ cpc' = "complete"
                 /\ cexc' = cexc
    /\ UNCHANGED <<cfgVars, nextVars, plugVars, schedVars, docVars, pageVars,
                   shutdown_requested, pc, exc, pathIdx, current_url, attempt,
                   soup, all_data, sessVars, taskVars, drvVars, histVars,
                   dry_run, storage_type, transformations, fault, yield,
                   channels, config_file, config, outbound, data,
                   notifications, exit_status>>

\* metrics.increment_items_scraped; notifier.notify_completion; echo.
CliComplete ==
    /\ cpc = "complete"
    /\ calls' = calls \o <<"increment_items_scraped", "notify_completion",
                           "echo">>
    /\ notifications' =
           Append(notifications, Notification("completed", "", Len(data)))
    /\ \E ok \in [channels -> BOOLEAN] :
           outbound' = outbound \o Deliveries("completed", ok)
    /\ exit_status' = 0
    /\ cpc' = "returned"
    /\ UNCHANGED <<cfgVars, nextVars, plugVars, schedVars, docVars, pageVars,
                   shutdown_requested, pc, exc, pathIdx, current_url, attempt,
                   soup, all_data, sessVars, taskVars, drvVars, histVars,
                   dry_run, storage_type, transformations, fault, yield,
                   channels, config_file, config, data, written, cexc>>

CliExceptQuiet ==
    /\ cpc = "except"
    /\ outbound' = outbound
    /\ exit_status' = 1
    /\ cpc' = "exited"
    /\ UNCHANGED <<cfgVars, nextVars, plugVars, schedVars, docVars, pageVars,
                   shutdown_requested, pc, exc, pathIdx, current_url, attempt,
                   soup, all_data, sessVars, taskVars, drvVars, histVars,
                   dry_run, storage_type, transformations, fault, yield,
                   channels, config_file, config, data, calls, notifications,
                   written, cexc>>

\* except Exception as e: logger.error; notifier.notify_error(name,
\* str(e)); sys.exit(1).
CliExcept ==
    /\ cpc = "except"
    /\ calls' = Append(calls, "notify_error")
    /\ notifications' =
           Append(notifications, Notification("failed", cexc, 0))
    /\ \E ok \in [channels -> BOOLEAN] :
           outbound' = outbound \o Deliveries("failed", ok)
    /\ exit_status' = 1
    /\ cpc' = "exited"
    /\ UNCHANGED <<cfgVars, nextVars, plugVars, schedVars, docVars, pageVars,
                   shutdown_requested, pc, exc, pathIdx, current_url, attempt,
                   soup, all_data, sessVars, taskVars, drvVars, histVars,
                   dry_run, storage_type, transformations, fault, yield,
                   channels, config_file, config, data, written, cexc>>

CliNext ==
    \/ CliStart \/ CliConstruct \/ CliScrape \/ CliTransform \/ CliDryRun
    \/ CliStorage \/ CliSave \/ CliComplete \/ CliExcept

CliSpec == CliInit /\ [][CliNext]_vars

ConfigNext == CliLoad \/ CliStart

ConfigSpec == ConfigInit /\ [][ConfigNext]_vars

\* static_scraper.py: get_next_page_url, by its inputs -------------------

\* Nothing of a run or of the command line is under way.
Quiet ==
    /\ site = "A"
    /\ mode = "static"
    /\ global_concurrency = 1
    /\ RunStart
    /\ screenshot_on_error = TRUE
    /\ PageIdle /\ DocIdle /\ CliIdle

\* A reference as an href holds it: a host if it names one, whether its
\* path starts at the root, the segments of its path.  EmptyRef is "".
Ref(host, rooted, segs) == [host |-> host, rooted |-> rooted, segs |-> segs]
EmptyRef == Ref("", FALSE, <<>>)
Refs ==
    {EmptyRef, Ref("", FALSE, <<"page2">>), Ref("", TRUE, <<"p", "2">>),
     Ref("b", TRUE, <<"x">>)}

\* An element with its attributes; Tag.get gives None for a missing one.
NextElements ==
    {[attrs |-> <<>>]} \cup {[attrs |-> [href |-> r]] : r \in Refs}
ElementLists ==
    {<<>>} \cup {<<e>> : e \in NextElements}
           \cup {<<e, f>> : e \in NextElements, f \in NextElements}

\* config "pagination": each of the two keys present or not.
Paginations ==
    {<<>>} \cup {[next_selector |-> v] : v \in {"", "a.next"}}
           \cup {[next_url_template |-> "/page/{page}"]}
           \cup {[next_selector |-> v, next_url_template |-> "/page/{page}"] :
                     v \in {"", "a.next"}}

PageUrls == {Url("a", <<"list", "1">>), Url("a", <<>>)}

\* dict.get(key) and Tag.get(key): the value, if there is one.
Lookup(d, key) == IF key \in DOMAIN d THEN <<d[key]>> ELSE <<>>

\* Python truth of what Lookup gave: not None, not the empty string,
\* which is empty among the values of its kind.
Truthy(v, empty) == v # <<>> /\ v[1] # empty

\* urllib.parse.urljoin of an absolute url and a reference.
urljoin(base, ref) ==
    IF ref.host # "" THEN Url(ref.host, ref.segs)
    ELSE IF ref.rooted THEN Url(base.host, ref.segs)
    ELSE IF ref.segs = <<>> THEN base
    ELSE Url(base.host,
             SubSeq(base.path, 1, Len(base.path) - 1) \o ref.segs)

get_next_page_url_hrefAny(pag, elements, cur) ==
    LET HasHref(e) == Truthy(Lookup(e.attrs, "href"), EmptyRef)
        withHref == SelectSeq(elements, HasHref)
    IN  IF Truthy(Lookup(pag, "next_selector"), "") /\ withHref # <<>>
        THEN <<urljoin(cur, withHref[1].attrs.href)>>
        ELSE <<>>

\* get_next_page_url on a page whose elements matching next_selector
\* are elements, in document order: select_one gives the first.
get_next_page_url_href(pag, elements, cur) ==
    IF /\ Truthy(Lookup(pag, "next_selector"), "")
       /\ elements # <<>>
       /\ Truthy(Lookup(elements[1].attrs, "href"), EmptyRef)
    THEN <<urljoin(cur, elements[1].attrs.href)>>
    ELSE <<>>

NextInit ==
    /\ Quiet /\ PlugIdle /\ SchedIdle
    /\ pagination \in Paginations
    /\ next_elements \in ElementLists
    /\ page_url \in PageUrls
    /\ next_url = <<>>
    /\ npc = "call"

\* current_url = self.get_next_page_url(soup, current_url)
NextCall ==
    /\ npc = "call"
    /\ next_url' = get_next_page_url_href(pagination, next_elements, page_url)
    /\ npc' = "while"
    /\ UNCHANGED <<cfgVars, plugVars, schedVars, docVars, cliVars, pageVars,
                   shutdown_requested, pc, exc, pathIdx, current_url, attempt,
                   soup, all_data, sessVars, taskVars, drvVars, histVars,
                   pagination, next_elements, page_url>>

\* while current_url: the next turn fetches it, or the walk is over.
NextWhile ==
    /\ npc = "while"
    /\ npc' = IF next_url # <<>> THEN "fetch" ELSE "Done"
    /\ UNCHANGED <<cfgVars, plugVars, schedVars, docVars, cliVars, pageVars,
                   shutdown_requested, pc, exc, pathIdx, current_url, attempt,
                   soup, all_data, sessVars, taskVars, drvVars, histVars,
                   pagination, next_elements, page_url, next_url>>

NextStep == NextCall \/ NextWhile

NextSpec == NextInit /\ [][NextStep]_vars

\* plugins.py ------------------------------------------------------------

\* A float, by the digits float() read; 0.0 is <<"0">>.
Float(d) == [kind |-> "float", v |-> d]

\* Texts of a field: "_" is a space, "a" and "A" a letter in its two
\* cases, "1" a digit, "$" a currency sign.
Texts ==
    {<<>>, <<"_">>, <<"$", "1">>, <<"_", "a", "A">>, <<"a", "_", "_", "a">>}
FieldValues ==
    {Str(t) : t \in Texts}
        \cup {ListOf(<<>>), ListOf(<<"a">>), Null}
FieldNames == {"price", "title"}
Records == UNION {[F -> FieldValues] : F \in SUBSET FieldNames}

\* TRANSFORMERS, and a name no transformer is registered under.
TRANSFORMERS == {"price_to_float", "date_parser", "normalize_text"}
TransformerNames == TRANSFORMERS \cup {"slugify"}
Transformations ==
    UNION {[F -> TransformerNames] : F \in SUBSET FieldNames}

\* Python truth of a field value.
Falsy(value) == value.v = <<>>

\* str.replace(c, ""), for each c of a set.
RECURSIVE without(_, _)
without(t, cs) ==
    IF t = <<>> THEN <<>>
    ELSE IF Head(t) \in cs THEN without(Tail(t), cs)
    ELSE <<Head(t)>> \o without(Tail(t), cs)

\* float(text): surrounding whitespace dropped, then digits, else
\* ValueError.
IsNumber(t) ==
    strip(t) # <<>> /\ \A k \in 1..Len(strip(t)) : strip(t)[k] = "1"

\* str.split() joined by single spaces.
RECURSIVE squeeze(_)
squeeze(t) ==
    IF Len(t) < 2 THEN t
    ELSE IF t[1] = "_" /\ t[2] = "_" THEN squeeze(Tail(t))
    ELSE <<Head(t)>> \o squeeze(Tail(t))

\* str.title(): a letter is upper case after a character that is not a
\* letter, lower case after a letter.
RECURSIVE title(_, _)
title(t, afterLetter) ==
    IF t = <<>> THEN <<>>
    ELSE IF Head(t) \in {"a", "A"}
    THEN <<IF afterLetter THEN "a" ELSE "A">> \o title(Tail(t), TRUE)
    ELSE <<Head(t)>> \o title(Tail(t), FALSE)

\* The registered transformers.  A method of str called on a list or on
\* None raises AttributeError.
price_to_float(value) ==
    IF Falsy(value) THEN Value(Float(<<"0">>))
    ELSE IF value.kind # "str" THEN Raises
    ELSE LET cleaned == without(value.v, {"$", ","}) IN
         IF IsNumber(cleaned) THEN Value(Float(strip(cleaned)))
         ELSE Value(Float(<<"0">>))

date_parser(value) ==
    IF value.kind # "str" THEN Raises ELSE Value(Str(strip(value.v)))

normalize_text(value) ==
    IF Falsy(value) THEN Value(Str(<<>>))
    ELSE IF value.kind # "str" THEN Raises
    ELSE Value(Str(title(squeeze(strip(value.v)), FALSE)))

transformer(name, value) ==
    CASE name = "price_to_float" -> price_to_float(value)
      [] name = "date_parser" -> date_parser(value)
      [] name = "normalize_text" -> normalize_text(value)

apply_transformationsBlank(d, named) ==
    [field \in DOMAIN d |->
        IF field \in DOMAIN named
           /\ named[field] \in TRANSFORMERS
        THEN LET r == transformer(named[field], d[field]) IN
             IF r.raised THEN Str(<<>>) ELSE r.value
        ELSE d[field]]

\* apply_transformations: a copy of the dict in which every field that
\* transformations names, the dict has and a transformer is registered
\* for holds what the transformer returned, if it returned.
apply_transformations(d, named) ==
    [field \in DOMAIN d |->
        IF field \in DOMAIN named
           /\ named[field] \in TRANSFORMERS
        THEN LET r == transformer(named[field], d[field]) IN
             IF r.raised THEN d[field] ELSE r.value
        ELSE d[field]]

PlugInit ==
    /\ Quiet /\ NextIdle /\ SchedIdle
    /\ item \in Records
    /\ item_passed = item
    /\ field_transformers \in Transformations
    /\ transformed_data = <<>>
    /\ ppc = "call"

\* plugin_manager.apply_transformations(item, transformations): the
\* transformers build new values, none changes the one it is given.
PlugApply ==
    /\ ppc = "call"
    /\ transformed_data' = apply_transformations(item, field_transformers)
    /\ item' = item
    /\ ppc' = "returned"
    /\ UNCHANGED <<cfgVars, nextVars, schedVars, docVars, cliVars, pageVars,
                   shutdown_requested, pc, exc, pathIdx, current_url, attempt,
                   soup, all_data, sessVars, taskVars, drvVars, histVars,
                   item_passed, field_transformers>>

PlugSpec == PlugInit /\ [][PlugApply]_vars

\* scheduler.py ----------------------------------------------------------

Units == {"minutes", "hours", "days"}

\* Scheduler(): running False, no thread.  One thread schedules a task,
\* starts the scheduler and stops it.
SchedInit ==
    /\ Quiet /\ NextIdle /\ PlugIdle
    /\ running = FALSE
    /\ thread = "none"
    /\ job \in [interval : {1, 2}, unit : Units \cup {"weeks"},
                 scheduled : {FALSE}]
    /\ task_ran = FALSE
    /\ mpc = "schedule_task"
    /\ spc = "unborn"

\* schedule_task: the job is registered, or ValueError for the unit.
SchedTask ==
    /\ mpc = "schedule_task"
    /\ IF job.unit \in Units
       THEN job' = [job EXCEPT !.scheduled = TRUE] /\ mpc' = "start_scheduler"
       ELSE job' = job /\ mpc' = "ValueError"
    /\ UNCHANGED <<running, thread, task_ran, spc>>
    /\ UNCHANGED <<cfgVars, nextVars, plugVars, docVars, cliVars, pageVars,
                   shutdown_requested, pc, exc, pathIdx, current_url, attempt,
                   soup, all_data, sessVars, taskVars, drvVars, histVars>>

\* start_scheduler: no thread yet, so one is made and started; it has
\* not yet run a statement of run_scheduler.
SchedStart ==
    /\ mpc = "start_scheduler"
    /\ IF thread # "alive"
       THEN thread' = "alive" /\ spc' = "run_scheduler"
       ELSE UNCHANGED <<thread, spc>>
    /\ mpc' = "stop_scheduler"
    /\ UNCHANGED <<running, job, task_ran>>
    /\ UNCHANGED <<cfgVars, nextVars, plugVars, docVars, cliVars, pageVars,
                   shutdown_requested, pc, exc, pathIdx, current_url, attempt,
                   soup, all_data, sessVars, taskVars, drvVars, histVars>>

\* stop_scheduler: self.running = False.
SchedStop ==
    /\ mpc = "stop_scheduler"
    /\ running' = FALSE
    /\ mpc' = IF thread # "none" THEN "join" ELSE "stopped"
    /\ UNCHANGED <<thread, job, task_ran, spc>>
    /\ UNCHANGED <<cfgVars, nextVars, plugVars, docVars, cliVars, pageVars,
                   shutdown_requested, pc, exc, pathIdx, current_url, attempt,
                   soup, all_data, sessVars, taskVars, drvVars, histVars>>

\* self.thread.join() returns once the thread has ended.
SchedJoin ==
    /\ mpc = "join"
    /\ thread = "dead"
    /\ mpc' = "stopped"
    /\ UNCHANGED <<running, thread, job, task_ran, spc>>
    /\ UNCHANGED <<cfgVars, nextVars, plugVars, docVars, cliVars, pageVars,
                   shutdown_requested, pc, exc, pathIdx, current_url, attempt,
                   soup, all_data, sessVars, taskVars, drvVars, histVars>>

\* run_scheduler: self.running = True.
SchedRun ==
    /\ spc = "run_scheduler"
    /\ running' = TRUE
    /\ spc' = "while"
    /\ UNCHANGED <<thread, job, task_ran, mpc>>
    /\ UNCHANGED <<cfgVars, nextVars, plugVars, docVars, cliVars, pageVars,
                   shutdown_requested, pc, exc, pathIdx, current_url, attempt,
                   soup, all_data, sessVars, taskVars, drvVars, histVars>>

\* while self.running: the thread ends when it reads False.
SchedWhile ==
    /\ spc = "while"
    /\ IF running
       THEN spc' = "run_pending" /\ thread' = thread
       ELSE spc' = "ended" /\ thread' = "dead"
    /\ UNCHANGED <<running, job, task_ran, mpc>>
    /\ UNCHANGED <<cfgVars, nextVars, plugVars, docVars, cliVars, pageVars,
                   shutdown_requested, pc, exc, pathIdx, current_url, attempt,
                   soup, all_data, sessVars, taskVars, drvVars, histVars>>

\* schedule.run_pending(): the task is not due, or it is run and
\* returns, or it raises, which ends the thread.
SchedPending ==
    /\ spc = "run_pending"
    /\ \E due \in {"no", "returns", "raises"} :
           /\ task_ran' = (task_ran \/ due # "no")
           /\ IF due = "raises"
              THEN spc' = "raised" /\ thread' = "dead"
              ELSE spc' = "sleep" /\ thread' = thread
    /\ UNCHANGED <<running, job, mpc>>
    /\ UNCHANGED <<cfgVars, nextVars, plugVars, docVars, cliVars, pageVars,
                   shutdown_requested, pc, exc, pathIdx, current_url, attempt,
                   soup, all_data, sessVars, taskVars, drvVars, histVars>>

\* time.sleep(1)
SchedSleep ==
    /\ spc = "sleep"
    /\ spc' = "while"
    /\ UNCHANGED <<running, thread, job, task_ran, mpc>>
    /\ UNCHANGED <<cfgVars, nextVars, plugVars, docVars, cliVars, pageVars,
                   shutdown_requested, pc, exc, pathIdx, current_url, attempt,
                   soup, all_data, sessVars, taskVars, drvVars, histVars>>

SchedMain == SchedTask \/ SchedStart \/ SchedStop \/ SchedJoin

SchedThread == SchedRun \/ SchedWhile \/ SchedPending \/ SchedSleep

SchedNext == SchedMain \/ SchedThread

\* Both threads are scheduled again and again.
SchedLive ==
    /\ SchedInit
    /\ [][SchedNext]_vars
    /\ WF_vars(SchedMain)
    /\ WF_vars(SchedThread)

\* ======================= properties of the run ==========================

\* sub occurs in s as a contiguous block.
Contains(s, sub) ==
    \E k \in 0..(Len(s) - Len(sub)) : SubSeq(s, k + 1, k + Len(sub)) = sub

\* The records extract_data gives for page u.
RecordsOf(u) == extract_data([url |-> u, next |-> None])

\* The start path whose walk made the most recent fetch_page call.
LastCallPath ==
    CHOOSE i \in Paths :
        fetched[i] # <<>> /\ \A j \in Paths : j > i => fetched[j] = <<>>

\* Tasks that hold a slot of the semaphore: in their delay or request.
Outstanding == {i \in Paths : tpc[i] \in {"delay", "request"}}

\* C1: static and concurrent fetch_page: after k < retry_attempts (3)
\* transport failures followed by a success the call returns the document
\* of the successful attempt (attempt k+1) and no failure is raised to the
\* pagination loop, which goes on to extract that page; a RetryError is
\* never raised while fewer than 3 attempts have failed.
C1_RetryThenSuccess ==
    /\ mode = "static" =>
          /\ exc = "RetryError" => failCount >= RetryAttempts
          /\ pc = "backoff" => failCount < RetryAttempts /\ exc = "none"
          /\ pc = "extract" =>
                /\ failCount < RetryAttempts
                /\ reqCount = failCount + 1
                /\ soup.url = current_url
                /\ exc = "none"
                /\ outcome[pathIdx] = "none"
    /\ mode = "async" =>
          \A i \in Paths :
              /\ outcome[i] = "RetryError" => tfail[i] >= RetryAttempts
              /\ tpc[i] = "backoff" => tfail[i] < RetryAttempts
              /\ (tpc[i] = "done" /\ tfail[i] < RetryAttempts) =>
                    /\ treq[i] = tfail[i] + 1
                    /\ outcome[i] \in {"Done", "ExtractError"}
                    /\ outcome[i] = "Done" =>
                          results[i] = RecordsOf(StartUrl(i))

\* A static fetch_page call returned to the extraction step after two
\* failed attempts and a successful third one.
C1_Witness ==
    /\ mode = "static" /\ pc = "extract"
    /\ failCount = RetryAttempts - 1 /\ reqCount = RetryAttempts

\* C2: static and concurrent fetch_page: when every attempt fails exactly
\* retry_attempts (3) transport attempts are issued for the url, never a
\* fourth, and the call ends in a RetryError that scrape (static) or
\* scrape_single_page (concurrent) catches and logs.
C2_ExactlyThreeAttempts ==
    /\ reqCount <= RetryAttempts
    /\ \A i \in Paths : treq[i] <= RetryAttempts
    /\ mode = "static" =>
          /\ exc = "RetryError" =>
                pc = "except" /\ reqCount = RetryAttempts
                              /\ failCount = RetryAttempts
          /\ failCount = RetryAttempts =>
                /\ reqCount = RetryAttempts
                /\ \/ pc = "except" /\ exc = "RetryError"
                   \/ outcome[LastCallPath] = "RetryError"
    /\ mode = "async" =>
          \A i \in Paths :
              /\ tfail[i] = RetryAttempts =>
                    /\ treq[i] = RetryAttempts
                    /\ tpc[i] = "done"
                    /\ outcome[i] = "RetryError"
                    /\ results[i] = <<>>
              /\ outcome[i] = "RetryError" => tfail[i] = RetryAttempts

\* The static walk of the first path ended on a RetryError after three
\* transport attempts.
C2_Witness ==
    /\ mode = "static" /\ pc = "for" /\ pathIdx = 1
    /\ outcome[1] = "RetryError"
    /\ reqCount = RetryAttempts /\ failCount = RetryAttempts

\* C3: concurrent backend: at every instant at most global_concurrency
\* tasks hold a slot (delay or request), and a run in which no transport
\* attempt failed returns after exactly one transport attempt per start
\* path.
C3_BoundedConcurrency ==
    mode = "async" =>
        /\ Cardinality(Outstanding) <= global_concurrency
        /\ pc = "gather" =>
              semaphore + Cardinality(Outstanding) = global_concurrency
        /\ (pc = "returned" /\ \A i \in Paths : tfail[i] = 0) =>
              \A i \in Paths : treq[i] = 1 /\ Len(fetched[i]) = 1

\* A concurrent run with fewer slots than start paths returned after one
\* transport attempt per start path.
C3_Witness ==
    /\ mode = "async" /\ pc = "returned"
    /\ global_concurrency < NumPaths
    /\ \A i \in Paths : tfail[i] = 0 /\ treq[i] = 1

NoDup(q) == \A a, b \in 1..Len(q) : a # b => q[a] # q[b]

\* The walk of path i is over: the for loop has left it.
WalkOver(i) ==
    \/ pathIdx > i
    \/ pathIdx = i /\ pc \in {"for", "outer_except", "finally", "returned",
                               "raised"}

\* C4: a walk whose next selector matches nothing on the first fetched
\* page halts after exactly one page fetch for that start path and ends
\* Done, not in an error, with the records of that page in all_data.
C4_NoNextHaltsAfterOnePage ==
    mode \in {"static", "js"} =>
        \A i \in Paths :
            (hrefs[i] # <<>> /\ hrefs[i][1] = None) =>
                /\ Len(fetched[i]) = 1
                /\ Len(hrefs[i]) = 1
                /\ (pathIdx = i /\ pc = "while") => current_url = None
                /\ outcome[i] \in {"none", "Done"}
                /\ WalkOver(i) => outcome[i] = "Done"
                /\ Contains(all_data, RecordsOf(StartUrl(i)))

\* The static run returned; the first path's only page had no next link
\* and its walk ended Done after one fetch.
C4_Witness ==
    /\ mode = "static" /\ pc = "returned"
    /\ hrefs[1] = <<None>> /\ fetched[1] = <<StartUrl(1)>>
    /\ outcome[1] = "Done"
    /\ Contains(all_data, RecordsOf(StartUrl(1)))

\* C5 as stated: whatever the next links are, no url is fetched as
\* current_url more than once during one path's walk.
C5_NeverRevisits ==
    mode \in {"static", "js"} => \A i \in Paths : NoDup(fetched[i])

\* No next link seen on the walk of path i points to a page the walk had
\* already fetched (itself included).
NoBackLink(i) ==
    \A k \in 1..Len(hrefs[i]) :
        \A j \in 1..k : j <= Len(fetched[i]) => hrefs[i][k] # fetched[i][j]

\* C5 amended: the walker has no cycle detection; the urls fetched for a
\* path are the start url followed by the next link of each page fetched
\* before, so no url is fetched twice in a path's walk unless some next
\* link of that walk points to the page itself or to an earlier page.
C5_FollowsLinksOnly ==
    mode \in {"static", "js"} =>
        \A i \in Paths :
            /\ fetched[i] # <<>> => fetched[i][1] = StartUrl(i)
            /\ Len(hrefs[i]) <= Len(fetched[i])
            /\ \A k \in 2..Len(fetched[i]) : fetched[i][k] = hrefs[i][k - 1]
            /\ NoBackLink(i) => NoDup(fetched[i])

\* A static walk followed two next links through three different pages.
C5_Witness ==
    /\ mode = "static"
    /\ Len(fetched[1]) = 3 /\ NoDup(fetched[1])
    /\ Len(hrefs[1]) = 3 /\ NoBackLink(1)

\* C6 as stated: after a shutdown request no fetch is started for any
\* further page or start path (only the fetch in flight may complete).
C6_ShutdownStopsFetching == ~lateFetch

\* C7 as stated: a static or CLI-started concurrent run opens exactly one
\* HTTP session and has closed every session it opened when it ends.
C7_OneSessionOpenedAndClosed ==
    mode \in {"static", "async"} =>
        /\ sessionsOpened <= 1
        /\ pc \in {"returned", "raised"} =>
              /\ sessionsOpened = 1
              /\ sessionsClosed = 1..sessionsOpened

\* C8: rendered backend: once setup_driver has created the driver,
\* driver.quit() is called exactly once, at the end of scrape(), whether
\* scrape() returns or raises; it is never called twice and a live driver
\* never survives scrape().
C8_DriverQuitExactlyOnce ==
    mode = "js" =>
        /\ quitCount <= 1
        /\ driver = "live" => quitCount = 0 /\ pc \notin {"returned", "raised"}
        /\ driver = "quit" => quitCount = 1 /\ pc \in {"returned", "raised"}
        /\ (pc \in {"returned", "raised"} /\ driver = "none") =>
              quitCount = 0 /\ exc = "WebDriverError" /\ pathIdx = 0

\* A rendered run had a page-level exception in its first path, then an
\* exception escaped the start-path loop, and the driver was quit once.
C8_Witness ==
    /\ mode = "js" /\ pc = "raised" /\ exc = "TypeError"
    /\ outcome[1] = "WebDriverError"
    /\ driver = "quit" /\ quitCount = 1

\* C9 as stated: the concurrent backend paginates, so a run in which a
\* fetched start page carried a next link fetched a further page.
C9_AsyncFollowsNextLinks ==
    (mode = "async" /\ pc = "returned" /\ linkDropped) =>
        \E i \in Paths : Len(fetched[i]) > 1

\* C9 amended: under the concurrent backend a start path is not
\* paginated: exactly one fetch_page call is made per start path, for the
\* start url itself, no next url is looked up and no further page is
\* fetched, whatever next link the fetched page carries.
C9_AsyncSinglePage ==
    mode = "async" =>
        \A i \in Paths :
            /\ Len(fetched[i]) <= 1
            /\ fetched[i] # <<>> => fetched[i] = <<StartUrl(i)>>
            /\ hrefs[i] = <<>>
            /\ pc = "returned" => Len(fetched[i]) = 1

\* A concurrent run returned with every path Done after one fetch each
\* although a fetched page carried a next link.
C9_Witness ==
    /\ mode = "async" /\ pc = "returned" /\ linkDropped
    /\ \A i \in Paths : outcome[i] = "Done" /\ Len(fetched[i]) = 1

\* C10: concurrent backend: a start url whose fetch exhausts its retries
\* cancels no sibling: gather returns only when every task has ended by
\* its own response, and the records of every sibling that succeeded are
\* in the returned all_data.
C10_SiblingsNotCancelled ==
    mode = "async" =>
        /\ \A i \in Paths :
              tpc[i] = "done" => treq[i] >= 1 /\ outcome[i] # "none"
        /\ (pc \in {"aexit_inner", "aexit_outer", "returned"}
               /\ exc = "none") =>
              /\ \A j \in Paths :
                    /\ tpc[j] = "done"
                    /\ outcome[j] = "Done" =>
                          /\ results[j] = RecordsOf(StartUrl(j))
                          /\ Contains(all_data, results[j])
              /\ all_data = Concat(results, NumPaths)

\* A concurrent run returned: the second start url exhausted its retries
\* and the records of the first one are in all_data.
C10_Witness ==
    /\ mode = "async" /\ pc = "returned"
    /\ outcome[2] = "RetryError" /\ tfail[2] = RetryAttempts
    /\ outcome[1] = "Done" /\ results[1] # <<>>
    /\ Contains(all_data, RecordsOf(StartUrl(1)))
\* ---- C11..C14: failures of a page, the rate-limit sleep ------------------

\* The errors a page fetch ends in: RetryError of fetch_page, an exception
\* of driver.get.
FetchErrors == {"RetryError", "WebDriverError"}

\* The walk of path i was ended by a failed fetch.
Failed(i) == outcome[i] \in FetchErrors

\* Pages of path i whose records all_data.extend has appended.
Extracted(i) ==
    Len(hrefs[i]) + (IF pathIdx = i /\ pc = "next" THEN 1 ELSE 0)

RECURSIVE WalkRecords(_, _)
\* The records of the first n pages fetched for path i, in fetch order.
WalkRecords(i, n) ==
    IF n = 0 THEN <<>>
    ELSE WalkRecords(i, n - 1) \o RecordsOf(fetched[i][n])

\* What start path i has contributed to the list scrape() returns.
PathRecords(i) ==
    IF mode = "async" THEN results[i] ELSE WalkRecords(i, Extracted(i))

RECURSIVE AllRecords(_)
AllRecords(n) == IF n = 0 THEN <<>> ELSE AllRecords(n - 1) \o PathRecords(n)

\* C11: static and rendered backend: when the fetch of a page of start
\* path i fails, that page is the last one fetched for path i (the walk of
\* path i is over at once), every later start path still starts at its own
\* start url and follows its own next links, and the records gathered so
\* far stay in all_data.
C11_FailedPathStopsAlone ==
    mode \in {"static", "js"} =>
        \A i \in Paths :
            /\ Failed(i) =>
                  /\ WalkOver(i)
                  /\ Len(fetched[i]) = Len(hrefs[i]) + 1
                  /\ (pathIdx = i + 1 /\ pc = "while" /\ fetched[i + 1] = <<>>)
                        => current_url = StartUrl(i + 1)
            /\ fetched[i] # <<>> => fetched[i][1] = StartUrl(i)
            /\ Len(fetched[i]) <= Len(hrefs[i]) + 1
            /\ \A k \in 2..Len(fetched[i]) : fetched[i][k] = hrefs[i][k - 1]
            /\ outcome[i] = "Done" =>
                  /\ Len(fetched[i]) = Len(hrefs[i])
                  /\ Contains(all_data, WalkRecords(i, Len(fetched[i])))

\* A static run returned: the first path failed on its second page and
\* the second path was walked from its own start url to the end.
C11_Witness ==
    /\ mode = "static" /\ pc = "returned"
    /\ outcome[1] = "RetryError" /\ Len(fetched[1]) = 2
    /\ outcome[2] = "Done" /\ fetched[2][1] = StartUrl(2)

\* C12: a page-level failure never leaves scrape(): a RetryError, an
\* exception of driver.get or of extract_data is always caught by the page
\* loop (static, rendered) or by scrape_single_page (concurrent), and the
\* list scrape() returns holds exactly the records of the pages extracted
\* before and after the failure, in order; it is empty when every fetch
\* failed.
C12_PageFailureNotEscalated ==
    /\ exc \in {"RetryError", "ExtractError"} => pc = "except"
    /\ (mode = "js" /\ exc = "WebDriverError" /\ pathIdx > 0) =>
          pc = "except"
    /\ pc = "raised" =>
          \/ exc = "TypeError"
          \/ mode = "js" /\ exc = "WebDriverError" /\ pathIdx = 0
    /\ mode \in {"static", "js"} => all_data = AllRecords(NumPaths)
    /\ pc = "returned" =>
          /\ exc = "none"
          /\ all_data = AllRecords(NumPaths)
          /\ (\A i \in Paths : Failed(i) /\ Len(fetched[i]) = 1) =>
                all_data = <<>>

\* A static run returned normally with the records of the first page of
\* path 1 although the fetch of that path's second page and the fetch of
\* path 2 failed.
C12_Witness ==
    /\ mode = "static" /\ pc = "returned"
    /\ outcome[1] = "RetryError" /\ Len(hrefs[1]) = 1
    /\ outcome[2] = "RetryError" /\ Len(fetched[2]) = 1
    /\ all_data = RecordsOf(StartUrl(1)) /\ all_data # <<>>

\* C13 as stated: when scrape() has returned, what it hands to its caller
\* tells a start path whose walk failed from a start path that ended Done
\* with zero records.
C13_StatusTold ==
    pc = "returned" =>
        \A i, j \in Paths :
            (Failed(i) /\ outcome[j] = "Done" /\ PathRecords(j) = <<>>) =>
                PathRecords(i) # PathRecords(j)

\* C14: every request or navigation is issued after a rate-limit sleep of
\* its own attempt: the sleeps performed by a fetch always equal the
\* requests it issued, on the first attempt and on every retry.
C14_SleepBeforeEveryRequest ==
    /\ mode \in {"static", "js"} =>
          /\ sleepCount = reqCount
          /\ pc = "request" => sleepCount >= 1
          /\ (mode = "static" /\ pc = "request") => sleepCount = attempt
    /\ mode = "async" =>
          \A i \in Paths :
              /\ tsleep[i] = treq[i]
              /\ tpc[i] = "request" => tsleep[i] = tattempt[i]

\* The third attempt of a static fetch is in flight after three sleeps.
C14_Witness ==
    /\ mode = "static" /\ pc = "request"
    /\ attempt = RetryAttempts /\ sleepCount = RetryAttempts
    /\ failCount = RetryAttempts - 1
\* C16 as stated: in the rendered backend a navigation that fails is
\* attempted again, and the walk of the start path ends Failed only after
\* retry_attempts (3) navigations of that page have failed.
C16_RenderedRetries ==
    (mode = "js" /\ pc = "except" /\ exc = "WebDriverError") =>
        reqCount = RetryAttempts /\ failCount = RetryAttempts
\* The last n elements of s.
Tail_(s, n) == SubSeq(s, Len(s) - n + 1, Len(s))

\* C18: static and rendered backend: within one start path the fetch of
\* page N+1 starts only after the records of page N were extracted and
\* appended: while a page of path i is being fetched, all pages fetched
\* before it in that path have been extracted and their records are the
\* end of all_data, in page order.
C18_StrictPageSequence ==
    mode \in {"static", "js"} =>
        \A i \in Paths :
            /\ Len(fetched[i]) <= Extracted(i) + 1
            /\ (pathIdx = i /\ pc \in {"delay", "request", "backoff"}) =>
                  /\ Extracted(i) = Len(fetched[i]) - 1
                  /\ Len(all_data) >= Len(WalkRecords(i, Extracted(i)))
                  /\ Tail_(all_data, Len(WalkRecords(i, Extracted(i))))
                        = WalkRecords(i, Extracted(i))

\* The third page of the first path is being fetched and the records of
\* its first two pages are in all_data.
C18_Witness ==
    /\ mode = "static" /\ pathIdx = 1 /\ pc = "request"
    /\ Len(fetched[1]) = 3 /\ Len(hrefs[1]) = 2
    /\ all_data = WalkRecords(1, 2) /\ Len(all_data) >= 2
\* Some next link seen in this run points back to a page already fetched
\* in the same walk: the chain of next links is not finite.
ChainNotFinite == \E i \in Paths : ~NoBackLink(i)

\* A start path that urljoin rejects: scrape() ends by raising TypeError.
StartPathInvalid == exc = "TypeError"

\* The walk stands at the bound on fetch_page calls of the model without
\* ever having fetched a page twice.
FetchBoundReached ==
    /\ pc = "while" /\ current_url # None
    /\ TotalFetches >= MaxFetches
    /\ \A i \in Paths : NoDup(fetched[i])

\* C19: static backend: when the start paths are valid and no next link
\* points back to a page of its own walk, scrape() eventually returns, and
\* when it has returned the walk of every start path has ended, Done
\* (current_url absent) or on an error.
C19_StaticTerminates ==
    /\ <>(pc = "returned" \/ StartPathInvalid \/ ChainNotFinite
            \/ FetchBoundReached)
    /\ [](pc = "returned" =>
            \A i \in Paths : outcome[i] # "none" /\ WalkOver(i))

\* scrape() returned after walking two pages for the first path and one
\* for the second, no next link pointing back.
C19_Witness ==
    /\ mode = "static" /\ pc = "returned" /\ ~ChainNotFinite
    /\ Len(fetched[1]) = 2 /\ Len(fetched[2]) = 1
    /\ outcome[1] = "Done" /\ outcome[2] = "Done"
\* ---- C15, C17, C20: one page in detail (PageSpec) ------------------------

\* C15 as stated: for every configured delay_seconds d >= 0, d = 0
\* included, the sleep before a request lasts exactly d without jitter and
\* lies in [d, d + 1 s) with jitter.
C15_SleepMatchesConfig ==
    (pc = "request" /\ get_nested("delay_seconds") # <<>>) =>
        LET d == get_nested("delay_seconds")[1]
        IN  IF get_nested("jitter") = <<TRUE>>
            THEN d <= delay /\ delay < d + TicksPerSecond
            ELSE delay = d

\* C17: static and concurrent backend: tenacity inserts one wait after
\* each failed attempt but the last (two waits at most); the wait after
\* attempt n is the exponential value of that attempt clamped to
\* [4, 10] seconds, so it is never below 4, never above 10, and no wait
\* is shorter than the one before it.
C17_BackoffClamped ==
    mode \in {"static", "async"} =>
        /\ Len(waits) <= RetryAttempts - 1
        /\ pc # "init" => Len(waits) = attempt - 1
        /\ \A k \in 1..Len(waits) :
              /\ waits[k] >= WaitMin /\ waits[k] <= WaitMax
              /\ waits[k] \in {wait_exponential(k - 1), wait_exponential(k)}
              /\ k > 1 => waits[k] >= waits[k - 1]
        /\ (pc = "failed" /\ exc = "RetryError") =>
              Len(waits) = RetryAttempts - 1

\* A static fetch failed three times: a wait of 4 seconds was inserted
\* after the first and after the second attempt, none after the third.
C17_Witness ==
    /\ mode = "static" /\ pc = "failed" /\ exc = "RetryError"
    /\ attempt = RetryAttempts
    /\ waits = <<WaitMin, WaitMin>>

\* C20: for every backend and every fields schema, extract_data on a page
\* where a well-formed item selector matches zero elements returns the
\* empty list and raises nothing.
C20_ZeroMatchGivesEmpty ==
    /\ \A m \in Modes : \A f \in FieldKinds :
           extract_results(m, [item |-> "ok", fields |-> f], 0)
               = {Returned(0)}
    /\ (selectors.item = "ok" /\ matched = 0) =>
           /\ exc # "ExtractError"
           /\ items = <<>>
    /\ (pc = "done" /\ selectors.item = "ok") =>
           Len(items) = matched /\ exc = "none"

\* The rendered backend extracted a page without a matching element,
\* under a fields schema with a malformed selector, and returned [].
C20_Witness ==
    /\ mode = "js" /\ pc = "done" /\ exc = "none"
    /\ selectors = [item |-> "ok", fields |-> "bad_selector"]
    /\ matched = 0 /\ items = <<>>

\* ---- C26..C28: a page that cannot be extracted, screenshots -------------

\* The errors the page loop of the rendered backend catches.
PageErrors == {"WebDriverError", "ExtractError", "LookupError"}

\* C26 as stated: when extraction of a fetched page raises, the walk of
\* that start path is not ended by it: the next-page lookup is still made
\* for that page, as for every fetched page of a walk that is over.
C26_ExtractionFailureContinues ==
    mode \in {"static", "js"} =>
        \A i \in Paths :
            (outcome[i] = "ExtractError" /\ WalkOver(i)) =>
                Len(hrefs[i]) = Len(fetched[i])

\* C26, amended: when extraction of a fetched page raises, the page loop
\* catches the error and ends the walk of that start path at that page:
\* the page adds no record to all_data, no next-page lookup is made for
\* it, the next start path is walked from its own start url, and scrape()
\* does not raise.
C26_ExtractionFailureEndsWalk ==
    mode \in {"static", "js"} =>
        /\ exc = "ExtractError" => pc = "except"
        /\ pc = "raised" => exc # "ExtractError"
        /\ all_data = AllRecords(NumPaths)
        /\ \A i \in Paths :
              outcome[i] = "ExtractError" =>
                  /\ WalkOver(i)
                  /\ Len(fetched[i]) = Len(hrefs[i]) + 1
                  /\ Extracted(i) = Len(fetched[i]) - 1
                  /\ (pathIdx = i + 1 /\ pc = "while"
                         /\ fetched[i + 1] = <<>>) =>
                        current_url = StartUrl(i + 1)

\* A static run returned: extraction of the first page of path 1 raised,
\* no lookup was made for it, and path 2 was walked to the end.
C26_Witness ==
    /\ mode = "static" /\ pc = "returned"
    /\ outcome[1] = "ExtractError"
    /\ fetched[1] = <<StartUrl(1)>> /\ hrefs[1] = <<>>
    /\ outcome[2] = "Done" /\ fetched[2] # <<>>

\* C27 as stated: rendered backend: a page on which the item selector
\* does not appear within the wait is a fetch failure, so no next-page
\* lookup is ever made for such a page.
C27_MissingItemsFailTheWalk ==
    mode = "js" =>
        \A i \in Paths :
            \A k \in 1..Len(hrefs[i]) :
                k <= Len(fetched[i]) => ItemsOn(fetched[i][k]) # 0

\* C27, amended: rendered backend: when the item selector does not appear
\* within the wait, extract_data catches the TimeoutException and returns
\* an empty list: no TimeoutException reaches the page loop, the page
\* adds no record, the next-page lookup is made for it as for any page,
\* and a walk that ends Done has taken no screenshot.
C27_MissingItemsGiveEmptyPage ==
    mode = "js" =>
        /\ exc # "TimeoutException"
        /\ all_data = AllRecords(NumPaths)
        /\ \A i \in Paths :
              /\ outcome[i] # "TimeoutException"
              /\ outcome[i] = "Done" =>
                    /\ shots[i] = <<>>
                    /\ Len(hrefs[i]) = Len(fetched[i])
              /\ (pathIdx = i /\ pc = "next" /\ ItemsOn(soup.url) = 0) =>
                    /\ exc = "none"
                    /\ RecordsOf(soup.url) = <<>>

\* A rendered run returned: the start page of a path showed no item, its
\* next link was followed all the same, and the walk ended Done without
\* a screenshot.
C27_Witness ==
    /\ mode = "js" /\ pc = "returned"
    /\ \E i \in Paths :
          /\ outcome[i] = "Done" /\ shots[i] = <<>>
          /\ Len(fetched[i]) >= 2
          /\ ItemsOn(fetched[i][1]) = 0
          /\ hrefs[i][1] = fetched[i][2]

ItemAt(i) ==
    document[CHOOSE k \in 1..Len(document) :
                 /\ document[k].item
                 /\ Cardinality({j \in 1..k : document[j].item}) = i]

\* t is orig without its leading and trailing white space.
IsTrimOf(t, orig) ==
    /\ t = <<>> \/ (t[1] # "_" /\ t[Len(t)] # "_")
    /\ \E a \in 0..Len(orig) :
          /\ a + Len(t) <= Len(orig)
          /\ SubSeq(orig, a + 1, a + Len(t)) = t
          /\ \A k \in 1..Len(orig) :
                (k <= a \/ k > a + Len(t)) => orig[k] = "_"

\* C21: a simple (string) field selector evaluated within an item gives
\* the trimmed text of the sub-element when it matches exactly one, the
\* sequence of the N trimmed texts in document order when it matches
\* N > 1, and the empty string when it matches none.
C21_SimpleSelector ==
    extracted.status = "returned" =>
        \A i \in 1..Len(extracted.items) :
            \A f \in 1..Len(field_selectors) :
                field_selectors[f] = Simple =>
                    LET kids == ItemAt(i).kids
                        v == extracted.items[i][f]
                    IN  /\ Len(kids) = 0 => v.kind = "str" /\ v.v = <<>>
                        /\ Len(kids) = 1 =>
                              /\ v.kind = "str"
                              /\ IsTrimOf(v.v, kids[1].text)
                        /\ Len(kids) > 1 =>
                              /\ v.kind = "list"
                              /\ Len(v.v) = Len(kids)
                              /\ \A k \in 1..Len(kids) :
                                    IsTrimOf(v.v[k], kids[k].text)

\* Two items, the first with two sub-elements the selector matches and
\* the second with none: the records are [x, y] and "".
C21_Witness ==
    /\ mode = "static" /\ extracted.status = "returned"
    /\ field_selectors = <<Simple>>
    /\ Len(document) = 2
    /\ document[1].kids = <<Elem1, Elem2>> /\ document[2].kids = <<>>
    /\ extracted.items =
           <<<<ListOf(<<<<"x">>, <<"y">>>>)>>, <<Str(<<>>)>>>>

\* C22 as stated: in every backend the field of an attributed selector is
\* a string: the named attribute of the first matched element, the empty
\* string when that element lacks it or when nothing is matched.
C22_AttributeAlwaysString ==
    extracted.status = "returned" =>
        \A i \in 1..Len(extracted.items) :
            \A f \in 1..Len(field_selectors) :
                field_selectors[f] = Attributed =>
                    LET kids == ItemAt(i).kids
                        v == extracted.items[i][f]
                    IN  /\ v.kind = "str"
                        /\ (kids = <<>> \/ kids[1].attrs = <<>>) =>
                              v.v = <<>>
                        /\ (kids # <<>> /\ kids[1].attrs # <<>>) =>
                              v.v = kids[1].attrs[1][2]

\* C23 as stated: in every backend a field evaluation that fails does not
\* abort the extraction: extract_data returns one record per item, with
\* the empty string for the field that failed.
C23_FieldFailureContained ==
    extracted.status \in {"returned", "raised"} =>
        /\ extracted.status = "returned"
        /\ Len(extracted.items) =
               Cardinality({k \in 1..Len(document) : document[k].item})
        /\ \A i \in 1..Len(extracted.items) :
              \A f \in 1..Len(field_selectors) :
                  field_selectors[f] = Malformed =>
                      extracted.items[i][f] = Str(<<>>)

\* C24: a field selector is evaluated within the subtree of the item
\* element only: an item without a matching sub-element gets the empty
\* string whatever matches elsewhere in the document, every text of a
\* field comes from the item's own sub-elements, and items with equal
\* subtrees get equal records.
C24_WithinItemSubtree ==
    extracted.status = "returned" =>
        \A i \in 1..Len(extracted.items) :
            \A f \in 1..Len(field_selectors) :
                field_selectors[f].css = "ok" =>
                    LET kids == ItemAt(i).kids
                        v == extracted.items[i][f]
                    IN  /\ kids = <<>> => v.kind = "str" /\ v.v = <<>>
                        /\ v.kind = "list" =>
                              /\ Len(v.v) = Len(kids)
                              /\ \A k \in 1..Len(kids) :
                                    IsTrimOf(v.v[k], kids[k].text)
                        /\ (v.kind = "str" /\ kids # <<>>) =>
                              \/ IsTrimOf(v.v, kids[1].text)
                              \/ /\ field_selectors[f] = Attributed
                                 /\ v.v \in {<<>>} \cup
                                        {kids[1].attrs[k][2] :
                                            k \in 1..Len(kids[1].attrs)}
                        /\ \A j \in 1..Len(extracted.items) :
                              ItemAt(j).kids = kids =>
                                  extracted.items[j][f] = v

\* An element the field selector matches lies before the only item, which
\* has no such sub-element: the item's field is "".
C24_Witness ==
    /\ mode = "static" /\ extracted.status = "returned"
    /\ field_selectors = <<Simple>>
    /\ document = <<[item |-> FALSE, kids |-> <<Elem1>>],
                    [item |-> TRUE, kids |-> <<>>]>>
    /\ extracted.items = <<<<Str(<<>>)>>>>

\* C25: when extract_data returns there is exactly one record per element
\* the item selector matches, in document order, each with one entry per
\* configured field, an item whose every field is the empty string
\* included.
C25_OneRecordPerItem ==
    extracted.status = "returned" =>
        /\ Len(extracted.items) =
               Cardinality({k \in 1..Len(document) : document[k].item})
        /\ \A i \in 1..Len(extracted.items) :
              /\ Len(extracted.items[i]) = Len(field_selectors)
              /\ \A f \in 1..Len(field_selectors) :
                    (field_selectors[f] = TextOf /\ ItemAt(i).kids # <<>>)
                        => /\ extracted.items[i][f].kind = "str"
                           /\ IsTrimOf(extracted.items[i][f].v,
                                       ItemAt(i).kids[1].text)

\* The concurrent backend extracted two items: the record of the first
\* has a text, that of the second has only empty strings.
C25_Witness ==
    /\ mode = "async" /\ extracted.status = "returned"
    /\ field_selectors # <<>>
    /\ Len(extracted.items) = 2
    /\ ~AllEmpty(extracted.items[1])
    /\ AllEmpty(extracted.items[2])

\* ---- C29, C30: the command line run -------------------------------------

InCalls(c) == \E k \in 1..Len(calls) : calls[k] = c

Sent(kind) == \E k \in 1..Len(notifications) : notifications[k].kind = kind

\* The run has a step that raises on its way: construction, scraping
\* (driver setup included), and, unless it is a dry run, the construction
\* of the storage or save.
RunFails ==
    /\ mode \in Modes
    /\ \/ fault \in {"construct", "scrape"}
       \/ fault = "setup" /\ mode = "js"
       \/ /\ ~dry_run
          /\ \/ fault \in {"makedirs", "save"}
             \/ storage_type = "xml"

\* C29: a dry run makes the calls a normal run of the same configuration
\* makes up to and including the transformations, on the same data, and
\* then returns: DataStorage is never constructed, save never called, and
\* neither the directory nor a row of the storage path is written.
C29_DryRunSkipsStorage ==
    /\ cpc = "dry_run" =>
          /\ calls = <<"notify_start", "construct", "scrape">>
                       \o (IF transformations
                           THEN <<"apply_transformations">> ELSE <<>>)
          /\ data = [k \in 1..yield |->
                        [raw |-> k, transformed |-> transformations]]
    /\ dry_run =>
          /\ ~InCalls("DataStorage") /\ ~InCalls("save")
          /\ written = [dir |-> FALSE, rows |-> <<>>]
          /\ cpc \notin {"storage", "save", "complete"}
          /\ ~Sent("completed")

\* A dry run of a configuration with transformations returned with
\* transformed records and nothing written.
C29_Witness ==
    /\ dry_run /\ cpc = "returned" /\ exit_status = 0
    /\ transformations /\ data # <<>> /\ data[1].transformed
    /\ written.rows = <<>> /\ ~written.dir

\* C30: when the construction of the scraper, the driver setup inside
\* scrape(), the construction of the storage or storage.save raises, the
\* run ends with exit status 1 after exactly one failed notification
\* that carries the text of the error, and sends no completed
\* notification; a run in which nothing raises returns with status 0.
C30_FailureExitsAndNotifies ==
    /\ cexc # "none" => cpc \in {"except", "exited"} /\ ~Sent("completed")
    /\ (mode \in Modes /\ cpc \in {"returned", "exited"}) =>
          IF RunFails
          THEN /\ cpc = "exited" /\ exit_status = 1
               /\ cexc # "none"
               /\ Len(notifications) = 2
               /\ notifications[2] = Notification("failed", cexc, 0)
               /\ ~Sent("completed")
          ELSE /\ cpc = "returned" /\ exit_status = 0
               /\ ~Sent("failed")

\* storage.save raised in a run that had scraped records: the process
\* ended with status 1 after the failed notification.
C30_Witness ==
    /\ cpc = "exited" /\ exit_status = 1
    /\ fault = "save" /\ cexc = "save" /\ data # <<>>
    /\ notifications[2] = Notification("failed", "save", 0)
    /\ InCalls("save") /\ ~InCalls("notify_completion")

\* ---- C35, C36, C38: the aggregate, the admission slots ------------------

\* s is an initial segment of t.
IsPrefix(s, t) == Len(s) <= Len(t) /\ SubSeq(t, 1, Len(s)) = s

\* C35: static backend: all_data is at every moment the concatenation of
\* the record lists of the pages extracted so far, by start path, then by
\* page of the walk, then by position in the page, so this is what
\* scrape() returns; and every step leaves the records already in
\* all_data where they are, unchanged, adding new ones at the end only.
C35_OrderedAppendOnly ==
    /\ [](mode = "static" => all_data = AllRecords(NumPaths))
    /\ [][mode = "static" => IsPrefix(all_data, all_data')]_vars

\* A static run returned the records of pages 1 and 3 for path 1 followed
\* by those of pages 2 (none) and 3 for path 2.
C35_Witness ==
    /\ mode = "static" /\ pc = "returned"
    /\ fetched[1] = <<1, 3>> /\ fetched[2] = <<2, 3>>
    /\ outcome[1] = "Done" /\ outcome[2] = "Done"
    /\ all_data = <<<<1, 1>>, <<3, 1>>, <<3, 2>>, <<3, 1>>, <<3, 2>>>>

\* C38: concurrent backend: the slots taken from the semaphore are
\* exactly those of the tasks inside the delay or the request of an
\* attempt: a task that waits for a slot, that is in the backoff between
\* two attempts or that is done holds none, and every slot is free when
\* the gather is over and when scrape() returns.
C38_SlotHeldPerAttempt ==
    (mode = "async" /\ pc \notin {"init", "scrape", "aenter_inner"}) =>
        /\ semaphore = global_concurrency - Cardinality(Outstanding)
        /\ \A i \in Paths :
              tpc[i] \in {"new", "acquire", "backoff", "done"} =>
                  i \notin Outstanding
        /\ pc \in {"aexit_inner", "aexit_outer", "returned"} =>
              semaphore = global_concurrency

\* A task is in the backoff after a failed attempt and holds no slot
\* while another task has taken the only one.
C38_Witness ==
    /\ mode = "async" /\ pc = "gather" /\ global_concurrency = 1
    /\ tpc[1] = "backoff" /\ tfail[1] = 1
    /\ tpc[2] = "request"
    /\ semaphore = 0

\* C36: concurrent backend: whatever order the tasks ended in, the list
\* scrape() returns is the results of the start paths joined in the order
\* of start_paths: the records of path i come before those of path j for
\* i < j, a path whose page was fetched and extracted gives that page's
\* records and a path that failed gives none.
C36_StartPathOrder ==
    (mode = "async" /\ pc \in {"aexit_inner", "aexit_outer", "returned"}
        /\ exc = "none") =>
        /\ all_data = Concat(results, NumPaths)
        /\ \A i \in Paths :
              results[i] = IF outcome[i] = "Done"
                           THEN RecordsOf(StartUrl(i)) ELSE <<>>
        /\ \A p \in 1..Len(all_data) :
              \A q \in 1..Len(all_data) :
                  p < q => all_data[p][1] <= all_data[q][1]

\* Task 2 ended before task 1, both with records: the records of path 1
\* are first in what scrape() returned.
C36_Witness ==
    /\ mode = "async" /\ pc = "returned"
    /\ doneOrder = <<2, 1>>
    /\ results[1] # <<>> /\ results[2] # <<>>
    /\ all_data = RecordsOf(StartUrl(1)) \o RecordsOf(StartUrl(2))

\* C31: a config file that lacks a required field makes ConfigLoader fail
\* with a ValueError that names a field the file lacks, and run ends with
\* status 1 having built no notifier and no scraper and sent nothing; a
\* file with the six required fields loads, keeps its own entries and has
\* the default of every optional field it lacks.
C31_RequiredFieldsChecked ==
    (cpc # "load" /\ config_file.exists) =>
        IF \E f \in Required : f \notin config_file.keys
        THEN /\ config.status = "ValueError"
             /\ config.field \in Required \ config_file.keys
             /\ cpc = "exited"
             /\ exit_status = 1
             /\ calls = <<>>
             /\ notifications = <<>>
             /\ outbound = <<>>
        ELSE /\ config.status = "loaded"
             /\ DOMAIN config.values = config_file.keys \cup Optional
             /\ \A k \in config_file.keys : config.values[k] = FromFile(k)
             /\ config.values["rate_limit"] =
                    IF "rate_limit" \in config_file.keys
                    THEN FromFile("rate_limit")
                    ELSE [delay_seconds |-> 1, jitter |-> FALSE]
             /\ config.values["selenium"] =
                    IF "selenium" \in config_file.keys
                    THEN FromFile("selenium")
                    ELSE [remote_url |-> "", headless |-> TRUE,
                          screenshot_on_error |-> TRUE]
             /\ \A k \in Optional \ config_file.keys :
                    config.values[k] = Default(k)
             /\ exit_status = NotExited

\* A file with a webhook and every field but storage has been refused.
C31_Witness ==
    /\ config_file.exists
    /\ config_file.keys = (Required \ {"storage"}) \cup Optional
    /\ channels = {"webhook"}
    /\ config.status = "ValueError"
    /\ config.field = "storage"
    /\ cpc = "exited"

\* A delivery of the event was tried on some channel.
Tried(event) == \E k \in 1..Len(outbound) : outbound[k].event = event

\* The position of the first call c in calls, 0 if there is none.
FirstCall(c) ==
    IF InCalls(c)
    THEN CHOOSE k \in 1..Len(calls) :
             calls[k] = c /\ \A j \in 1..(k - 1) : calls[j] # c
    ELSE 0

\* C32: a run whose mode is none of static, js and async ends with a
\* non-zero status having fetched no page and sent no notification on any
\* channel.
C32_UnsupportedModeSendsNothing ==
    (mode \notin Modes /\ cpc = "exited") =>
        /\ exit_status = 1
        /\ ~InCalls("scrape")
        /\ outbound = <<>>

\* C33: what the run saves and the status it ends with are settled by the
\* configuration and by what construction, scraping and storage do,
\* whatever becomes of the deliveries of the started, completed and failed
\* notifications: no delivery failure is an exception of the run.
C33_DeliveryNeverDecides ==
    /\ cexc \in {"none", "Unsupported storage type"} \cup Faults
    /\ cpc \in {"returned", "exited"} =>
          /\ exit_status = IF mode \notin Modes \/ RunFails THEN 1 ELSE 0
          /\ written.rows =
                 IF mode \in Modes /\ ~RunFails /\ ~dry_run
                 THEN [k \in 1..yield |->
                          [raw |-> k, transformed |-> transformations]]
                 ELSE <<>>
          /\ Sent("start")
          /\ mode \in Modes => (Sent("failed") <=> RunFails)

\* Every delivery of the started and of the completed notification failed
\* on all three channels, and the run saved its records and returned 0.
C33_Witness ==
    /\ cpc = "returned" /\ exit_status = 0
    /\ channels = Channels
    /\ Len(outbound) = 6
    /\ \A k \in 1..Len(outbound) : ~outbound[k].ok
    /\ Tried("start") /\ Tried("completed")
    /\ written.rows # <<>>

\* C39: the completed notification is sent only after storage.save was
\* called and returned, with the records it wrote, and no run sends both
\* a completed and a failed notification.
C39_CompletedAfterSave ==
    /\ ~(Sent("completed") /\ Sent("failed"))
    /\ ~(Tried("completed") /\ Tried("failed"))
    /\ Tried("completed") => Sent("completed")
    /\ Sent("completed") =>
          /\ InCalls("save")
          /\ FirstCall("save") < FirstCall("notify_completion")
          /\ cexc = "none"
          /\ fault # "save"
          /\ storage_type \in {"csv", "jsonl", "sqlite"}
          /\ written.dir
          /\ written.rows = data
          /\ notifications[Len(notifications)] =
                 Notification("completed", "", Len(data))

\* The completed notification of a run that saved its records went out
\* on the webhook.
C39_Witness ==
    /\ cpc = "returned"
    /\ Sent("completed")
    /\ written.rows # <<>> /\ written.rows = data
    /\ \E k \in 1..Len(outbound) :
          outbound[k] = [event |-> "completed", channel |-> "webhook",
                         ok |-> TRUE]

\* C34: get_next_page_url returns a url exactly when pagination has a
\* next_selector and the first element it matches has a non-empty href,
\* and the url is that href resolved against the current url; with no
\* selector, no match, no href or only a next_url_template it returns
\* None and the walk of the path ends Done.
C34_NextPageFromFirstMatch ==
    npc \in {"while", "fetch", "Done"} =>
        LET selector == /\ "next_selector" \in DOMAIN pagination
                        /\ pagination.next_selector # ""
            first == next_elements[1].attrs
            href == /\ selector
                    /\ next_elements # <<>>
                    /\ "href" \in DOMAIN first
                    /\ first.href # EmptyRef
        IN  IF href
            THEN /\ Len(next_url) = 1
                 /\ next_url[1] =
                        IF first.href.host # ""
                        THEN Url(first.href.host, first.href.segs)
                        ELSE IF first.href.rooted
                        THEN Url(page_url.host, first.href.segs)
                        ELSE Url(page_url.host,
                                 SubSeq(page_url.path, 1,
                                        Len(page_url.path) - 1)
                                     \o first.href.segs)
                 /\ npc # "Done"
            ELSE /\ next_url = <<>>
                 /\ npc # "fetch"

\* With a selector and a template configured, the relative href page2 of
\* the first match on a/list/1 gave a/list/page2, which is fetched next.
C34_Witness ==
    /\ DOMAIN pagination = {"next_selector", "next_url_template"}
    /\ pagination.next_selector = "a.next"
    /\ Len(next_elements) = 2
    /\ next_elements[1] = [attrs |-> [href |-> Ref("", FALSE, <<"page2">>)]]
    /\ page_url = Url("a", <<"list", "1">>)
    /\ next_url = <<Url("a", <<"list", "page2">>)>>
    /\ npc = "fetch"

\* C40: apply_transformations leaves the record it is given as it was,
\* and returns a record with the same fields in which a field differs
\* from the input only if transformations names it with a registered
\* transformer that returned; where the transformer raised, the field has
\* its input value.
C40_TransformsOnACopy ==
    ppc = "returned" =>
        /\ item = item_passed
        /\ DOMAIN transformed_data = DOMAIN item_passed
        /\ \A field \in DOMAIN item_passed :
              LET named == field \in DOMAIN field_transformers
                  name == field_transformers[field]
                  value == item_passed[field]
                  raises == CASE name = "price_to_float" ->
                                     value.kind = "list" /\ value.v # <<>>
                              [] name = "date_parser" -> value.kind # "str"
                              [] name = "normalize_text" ->
                                     value.kind = "list" /\ value.v # <<>>
                              [] OTHER -> FALSE
              IN  /\ transformed_data[field] # value =>
                        named /\ name \in TRANSFORMERS /\ ~raises
                  /\ (named /\ raises) => transformed_data[field] = value

\* price_to_float made 1.0 of "$1" while date_parser raised on the list
\* of the title field, which kept its value.
C40_Witness ==
    /\ ppc = "returned"
    /\ DOMAIN item_passed = {"price", "title"}
    /\ item_passed["price"] = Str(<<"$", "1">>)
    /\ item_passed["title"] = ListOf(<<"a">>)
    /\ field_transformers =
           [field \in {"price", "title"} |->
               IF field = "price" THEN "price_to_float" ELSE "date_parser"]
    /\ transformed_data["price"] = Float(<<"1">>)
    /\ transformed_data["title"] = item_passed["title"]

\* C37: whenever stop_scheduler is called after start_scheduler, however
\* the two threads interleave, the loop of run_scheduler exits and
\* stop_scheduler returns with running false (stated for the runs in
\* which no scheduled task raises).
C37_StopAlwaysReturns ==
    \/ <>(spc = "raised")
    \/ (mpc = "stop_scheduler") ~>
           (mpc = "stopped" /\ spc = "ended" /\ ~running)
====
